---- MODULE Spec2Model ----
(***************************************************************************)
(* State-machine model of the ingestion / embedding ETL pipeline of        *)
(* LocalBizIntelAI (apps/backend/jobs, apps/backend/repositories).         *)
(*                                                                         *)
(* Storage is a relational database reached through SQLAlchemy sessions   *)
(* built by SessionLocal (autocommit=False, autoflush=False): an object    *)
(* passed to add() is pending until flush() and is invisible to SELECTs    *)
(* until then; flushed rows are visible to their own session only until    *)
(* the enclosing transaction commits.  No table of models/market.py or     *)
(* models/system.py declares a unique constraint besides the surrogate id. *)
(***************************************************************************)
EXTENDS Integers, Sequences, FiniteSets, TLC

\* ------------------------------------------------------------------ bounds
MaxCalls == 3        \* upsert_many calls in one behaviour of SpecUpsert
MaxRuns == 2         \* run() invocations in one behaviour of SpecEtl
MaxConcRuns == 2     \* run() invocations in one behaviour of SpecEtlConc

\* ------------------------------------------------------------ vocabulary
None == "None"

Datasets == {"demographics", "spending", "labour_stats", "business_density"}

Tables == Datasets \cup {"data_freshness", "etl_logs", "vector_insights"}

Sessions == {"s1", "s2"}

\* The columns of the WHERE clause of upsert_many, per repository.
KeyFields(d) ==
    CASE d = "demographics" -> {"geo_id", "city", "country"}
      [] d = "labour_stats" -> {"geo_id", "city", "country"}
      [] d = "spending" -> {"geo_id", "city", "country", "category"}
      [] d = "business_density" -> {"geo_id", "city", "country", "business_type"}

\* The fields the update loop of upsert_many skips.
ProtectedFields(d) == KeyFields(d) \cup {"tenant_id"}

\* The value columns the constructor call of the insert branch fills from the
\* input row (two per table; the remaining nullable columns of the ORM models
\* go through the same two code paths).
ValueFields(d) ==
    CASE d = "demographics" -> {"population_total", "median_income"}
      [] d = "labour_stats" -> {"unemployment_rate", "job_openings"}
      [] d = "spending" -> {"avg_monthly_spend", "spend_index"}
      [] d = "business_density" -> {"count", "density_score"}

\* input_row.get(name, default) of the insert branch: demographics defaults
\* its two numeric columns to 0, every other column to None.
InsertDefault(d, f) ==
    IF d = "demographics" /\ f \in {"population_total", "median_income"}
    THEN "0" ELSE None

\* datetime.isoformat(): the text stored in the TIMESTAMP columns.
IsoFormat(t) == <<"iso", t>>

\* The surrogate primary key (default=uuid.uuid4) of the i-th object of a
\* kind built by the call stamped ts: unique, as uuid4 values are.
NewId(ts, kind, i) == <<ts, kind, i>>

\* ----------------------------------------------------------------- state
VARIABLES
    committed,   \* [Tables -> set of rows]: rows of committed transactions
    tx,          \* [Sessions -> [Tables -> set of rows]]: row versions flushed
                 \*   (or loaded and modified) in the session's open transaction
    pending,     \* [Sessions -> [Tables -> set of rows]]: add()ed, not flushed
    clock,       \* datetime.now(timezone.utc), as a tick counter
    repo,        \* SpecUpsert: the repository (table) under exercise
    calls,       \* SpecUpsert: record of the latest two upsert_many calls;
                 \*   SpecDispatch: the latest request consume() answered
    job,         \* [Sessions -> record]: the run() in progress on the session:
                 \*   its position (pc), arguments and local variables
    hist,        \* [Sessions -> sequence]: the collaborator calls made by the
                 \*   session's current run() invocation, in order
    runs,        \* number of run() (SpecDispatch: consume()) invocations
                 \*   started
    dispatch     \* [Sessions -> record]: the worker's consume() in progress on
                 \*   the session: the payload, the message and the lookup

vars == <<committed, tx, pending, clock, repo, calls, job, hist, runs, dispatch>>

storeVars == <<committed, tx, pending>>
etlVars == <<job, hist, runs, dispatch>>

EmptyTables == [t \in Tables |-> {}]

\* What a SELECT of session s on table t returns: the committed rows overlaid
\* with the versions of the session's own transaction.  Pending objects are
\* not included (autoflush=False).
View(s, t) ==
    tx[s][t] \cup {r \in committed[t] : \A x \in tx[s][t] : x.id # r.id}

\* ------------------------------------------------- dataset repositories
NaturalKey(d, row) == [f \in KeyFields(d) |-> row[f]]

\* The object built by the insert branch of upsert_many.
NewRow(d, input, ts, id) ==
    [f \in {"id", "tenant_id", "last_updated"} \cup KeyFields(d) \cup ValueFields(d) |->
        CASE f = "id" -> id
          [] f = "last_updated" -> IsoFormat(ts)
          [] f = "tenant_id" -> IF "tenant_id" \in DOMAIN input
                                THEN input["tenant_id"] ELSE None
          [] f \in KeyFields(d) -> input[f]
          [] OTHER -> IF f \in DOMAIN input THEN input[f] ELSE InsertDefault(d, f)]

\* UpdatedRow with tenant_id missing from the skipped fields.
UpdatedRow_TenantOverwritten(d, existing, input, ts) ==
    [f \in DOMAIN existing |->
        CASE f = "last_updated" -> IsoFormat(ts)
          [] f \in (DOMAIN input) \ (KeyFields(d) \cup {"id"}) -> input[f]
          [] OTHER -> existing[f]]

\* The update branch: setattr for every input field outside the protected set,
\* then last_updated.
UpdatedRow(d, existing, input, ts) ==
    [f \in DOMAIN existing |->
        CASE f = "last_updated" -> IsoFormat(ts)
          [] f \in (DOMAIN input) \ (ProtectedFields(d) \cup {"id"}) -> input[f]
          [] OTHER -> existing[f]]

\* The for-loop of upsert_many from input row i on.  st.objs is what SELECT
\* sees, st.news the objects add()ed so far in this call, st.log the updates
\* made.  .first() without ORDER BY returns any one of the matching rows, so
\* the result is the set of states the loop can end in.
RECURSIVE UpsertLoop(_, _, _, _, _)
UpsertLoop(d, rows, ts, i, st) ==
    IF i > Len(rows) THEN {st}
    ELSE LET input == rows[i]
             matches == {r \in st.objs : NaturalKey(d, r) = NaturalKey(d, input)}
         IN  IF matches # {}
             THEN UNION { UpsertLoop(d, rows, ts, i + 1,
                            [st EXCEPT
                               !.objs = (@ \ {e}) \cup {UpdatedRow(d, e, input, ts)},
                               !.log = Append(@, [before |-> e, input |-> input,
                                                  after |-> UpdatedRow(d, e, input, ts)]),
                               !.n = @ + 1]) : e \in matches }
             ELSE UpsertLoop(d, rows, ts, i + 1,
                            [st EXCEPT
                               !.news = @ \cup {NewRow(d, input, ts, NewId(ts, "row", i))},
                               !.n = @ + 1])

\* upsert_many up to (not including) its final flush.
UpsertMany(d, objs, rows, ts) ==
    UpsertLoop(d, rows, ts, 1, [objs |-> objs, news |-> {}, log |-> <<>>, n |-> 0])

\* The row versions an upsert_many call leaves in the session's transaction:
\* every object it touched or created replaces the version held before.
Overlay(old, new) == new \cup {r \in old : \A x \in new : x.id # r.id}

\* The objects an upsert_many call modified or created.
Touched(out, view) == (out.objs \ view) \cup out.news

\* ------------------------------------------------ SpecUpsert: the inputs
\* Input rows handed to a repository: a row with a tenant_id of its own, a row
\* with the same natural key that carries only part of the value columns, and
\* a row with a different key (another category / business type where the key
\* has one, another geo_id otherwise).
SampleRows(d) ==
    LET base == [geo_id |-> "accra-central", city |-> "Accra", country |-> "GH"]
        sub == CASE d = "spending" -> "category"
                 [] d = "business_density" -> "business_type"
                 [] OTHER -> "geo_id"
        v1 == CHOOSE f \in ValueFields(d) :
                 f \in {"population_total", "unemployment_rate", "avg_monthly_spend", "count"}
        v2 == CHOOSE f \in ValueFields(d) : f # v1
        key == IF sub = "geo_id" THEN base
               ELSE [f \in DOMAIN base \cup {sub} |-> IF f = sub THEN "x" ELSE base[f]]
        other == [f \in DOMAIN key |->
                    IF f = sub THEN (IF sub = "geo_id" THEN "accra-north" ELSE "y")
                    ELSE key[f]]
        With(r, f, v) == [g \in DOMAIN r \cup {f} |-> IF g = f THEN v ELSE r[g]]
    IN  { With(With(With(key, v1, "2"), v2, "6"), "tenant_id", "t1"),
          With(key, v2, "7"),
          With(other, v1, "1") }

\* Input lists handed to upsert_many: empty, one row, rows with distinct keys
\* in either order, one key twice (the same row, or two rows with that key in
\* either order), and all three rows.
RowLists(d) ==
    LET a == CHOOSE r \in SampleRows(d) : "tenant_id" \in DOMAIN r
        b == CHOOSE r \in SampleRows(d) :
                r # a /\ NaturalKey(d, r) = NaturalKey(d, a)
        o == CHOOSE r \in SampleRows(d) : NaturalKey(d, r) # NaturalKey(d, a)
    IN  {<<>>, <<a>>, <<b>>, <<o>>, <<a, o>>, <<o, a>>, <<a, a>>, <<a, b>>,
         <<b, a>>, <<a, b, o>>}

NoCalls == <<>>

\* An exception: the call that raised it and the block of run() it was in.
Exc(block, op) == [block |-> block, op |-> op]
NoExc == Exc("none", "none")

IdleJob == [pc |-> "idle", dataset |-> None, now |-> 0, country |-> None,
            city |-> None, options |-> None, raw_rows |-> <<>>, affected |-> 0,
            exc |-> NoExc, raised |-> NoExc, result |-> None]

\* No result map: consume() has not returned one.
NoOutput == [dataset_name |-> None, status |-> None, row_count |-> 0,
             country |-> None, city |-> None]

\* consume() not entered: no payload decoded, no handler looked up.
NoPayload == [dataset |-> [type |-> "null", val |-> <<>>],
              job_name |-> [type |-> "null", val |-> <<>>],
              country |-> None, city |-> None,
              options |-> [type |-> "null", val |-> <<>>]]

IdleDispatch == [pc |-> "idle", worker |-> None, payload |-> NoPayload,
                 dataset |-> <<>>, normalized |-> <<>>, handler |-> None,
                 country |-> None, city |-> None,
                 regions |-> [some |-> FALSE, list |-> <<>>],
                 options |-> <<>>, logged |-> <<>>,
                 error |-> NoExc, unsupported |-> <<>>, source |-> <<>>,
                 output |-> NoOutput]

\* ----------------------------------------------------- SpecUpsert: steps
InitUpsert ==
    /\ committed = EmptyTables
    /\ tx = [s \in Sessions |-> EmptyTables]
    /\ pending = [s \in Sessions |-> EmptyTables]
    /\ clock = 0
    /\ repo \in Datasets
    /\ calls = NoCalls
    /\ dispatch = [s \in Sessions |-> IdleDispatch]
    /\ job = [s \in Sessions |-> IdleJob]
    /\ hist = [s \in Sessions |-> <<>>]
    /\ runs = 0

\* One call repository.upsert_many(db_session, rows, last_updated) on session
\* s1, the final flush included.
UpsertManyCall ==
    /\ clock < MaxCalls
    /\ \E rows \in RowLists(repo) :
         \E out \in UpsertMany(repo, View("s1", repo), rows, clock + 1) :
            /\ tx' = [tx EXCEPT !["s1"][repo] =
                         Overlay(@, Touched(out, View("s1", repo)))]
            /\ clock' = clock + 1
            /\ calls' = Append(IF calls = NoCalls THEN calls ELSE <<calls[Len(calls)]>>,
                               [rows |-> rows, ts |-> clock + 1,
                                before |-> View("s1", repo),
                                log |-> out.log, returned |-> out.n])
    /\ UNCHANGED <<committed, pending, repo, etlVars>>

NextUpsert == UpsertManyCall

SpecUpsert == InitUpsert /\ [][NextUpsert]_vars

\* =================================================== the four ETL jobs
\* session.flush(): every pending object of the session reaches its table.
Flushed(s) == [t \in Tables |-> tx[s][t] \cup pending[s][t]]

FreshnessRow(id, d, last_run, row_count, status) ==
    [id |-> id, dataset_name |-> d, last_run |-> IsoFormat(last_run),
     row_count |-> row_count, status |-> status]

\* upsert_status with a SELECT that has no WHERE clause on dataset_name.
UpsertStatus_AnyDataset(s, d, last_run, row_count, status) ==
    LET existing == View(s, "data_freshness")
    IN  IF existing # {}
        THEN { [tx |-> [Flushed(s) EXCEPT !["data_freshness"] =
                          Overlay(@, {[e EXCEPT !.last_run = IsoFormat(last_run),
                                                !.row_count = row_count,
                                                !.status = status]})]] : e \in existing }
        ELSE { [tx |-> [Flushed(s) EXCEPT !["data_freshness"] =
                          @ \cup {FreshnessRow(NewId(last_run, "fresh", 0), d,
                                               last_run, row_count, status)}]] }

\* DataFreshnessRepository.upsert_status, its final flush included: the
\* transaction tables of the session it can leave behind.
UpsertStatus(s, d, last_run, row_count, status) ==
    LET existing == {r \in View(s, "data_freshness") : r.dataset_name = d}
    IN  IF existing # {}
        THEN { [tx |-> [Flushed(s) EXCEPT !["data_freshness"] =
                          Overlay(@, {[e EXCEPT !.last_run = IsoFormat(last_run),
                                                !.row_count = row_count,
                                                !.status = status]})]] : e \in existing }
        ELSE { [tx |-> [Flushed(s) EXCEPT !["data_freshness"] =
                          @ \cup {FreshnessRow(NewId(last_run, "fresh", 0), d,
                                               last_run, row_count, status)}]] }

\* The ETLLog object stamped with a clock reading later than the run's now.
ETLLog_LaterTimestamp(id, job_name, payload, status, created_at) ==
    [id |-> id, job_name |-> job_name, payload |-> payload, status |-> status,
     created_at |-> IsoFormat(created_at + 1)]

\* The ETLLog object both paths of run() build.
ETLLog(id, job_name, payload, status, created_at) ==
    [id |-> id, job_name |-> job_name, payload |-> payload, status |-> status,
     created_at |-> IsoFormat(created_at)]

EtlPayload(j) == [country |-> j.country, city |-> j.city, options |-> j.options]

\* The result with the row count of the failure path.
EtlResult_ZeroRows(j) ==
    [dataset_name |-> j.dataset, status |-> "COMPLETED", row_count |-> 0,
     country |-> j.country, city |-> j.city]

EtlResult(j) ==
    [dataset_name |-> j.dataset, status |-> "COMPLETED", row_count |-> j.affected,
     country |-> j.country, city |-> j.city]

Ev(op, ok, arg) == [op |-> op, ok |-> ok, arg |-> arg]

\* Arguments of run() and the rows a source client hands back.
Countries == {"GH"}
Cities == {"Accra"}
EmptyOptions == <<>>
OptionsSet == {EmptyOptions}

FetchResults(d) ==
    LET one == CHOOSE r \in SampleRows(d) : "tenant_id" \in DOMAIN r
        two == CHOOSE r \in SampleRows(d) :
                  NaturalKey(d, r) # NaturalKey(d, one)
    IN  {<<one>>, <<one, two>>}

\* run(): dataset_name, now, resolved_options; entering the try block.
RunEntered(d, now, co, ci, o) ==
    [IdleJob EXCEPT !.pc = "fetch", !.dataset = d, !.now = now, !.country = co,
                    !.city = ci, !.options = o]

\* A caller invokes run() of one of the four jobs on its session.
StartRun(s, max) ==
    /\ job[s].pc = "idle"
    /\ runs < max
    /\ \E d \in Datasets, co \in Countries, ci \in Cities, o \in OptionsSet :
         job' = [job EXCEPT ![s] = RunEntered(d, clock + 1, co, ci, o)]
    /\ clock' = clock + 1
    /\ runs' = runs + 1
    /\ hist' = [hist EXCEPT ![s] = <<>>]
    /\ UNCHANGED <<storeVars, repo, calls, dispatch>>

\* A call inside the try block raised: control moves to the except block.
Raise(s, op, arg) ==
    /\ job' = [job EXCEPT ![s].pc = "x_fresh", ![s].exc = Exc("try", op)]
    /\ hist' = [hist EXCEPT ![s] = Append(@, Ev(op, FALSE, arg))]
    /\ UNCHANGED <<storeVars, clock, repo, calls, runs, dispatch>>

\* A call inside the except block raised: that exception leaves run().
RaiseInExcept(s, op, arg) ==
    /\ job' = [job EXCEPT ![s].pc = "raised", ![s].raised = Exc("except", op)]
    /\ hist' = [hist EXCEPT ![s] = Append(@, Ev(op, FALSE, arg))]
    /\ UNCHANGED <<storeVars, clock, repo, calls, runs, dispatch>>

\* The fetch followed by the COMPLETED freshness write, the dataset upsert
\* left out.
Fetch_ThenFreshness(s) ==
    /\ job[s].pc = "fetch"
    /\ LET arg == EtlPayload(job[s])
       IN  \/ \E rows \in FetchResults(job[s].dataset) :
                /\ job' = [job EXCEPT ![s].pc = "fresh", ![s].raw_rows = rows]
                /\ hist' = [hist EXCEPT ![s] = Append(@, Ev("fetch", TRUE, arg))]
                /\ UNCHANGED <<storeVars, clock, repo, calls, runs, dispatch>>
           \/ Raise(s, "fetch", arg)

\* source_client.fetch_*(country, city, options, settings)
Fetch(s) ==
    /\ job[s].pc = "fetch"
    /\ LET arg == EtlPayload(job[s])
       IN  \/ \E rows \in FetchResults(job[s].dataset) :
                /\ job' = [job EXCEPT ![s].pc = "upsert", ![s].raw_rows = rows]
                /\ hist' = [hist EXCEPT ![s] = Append(@, Ev("fetch", TRUE, arg))]
                /\ UNCHANGED <<storeVars, clock, repo, calls, runs, dispatch>>
           \/ Raise(s, "fetch", arg)

\* repository.upsert_many(db_session, raw_rows, last_updated=now)
Upsert(s) ==
    /\ job[s].pc = "upsert"
    /\ LET j == job[s]
           arg == [rows |-> j.raw_rows, last_updated |-> j.now]
       IN  \/ \E out \in UpsertMany(j.dataset, View(s, j.dataset), j.raw_rows,
                                    j.now) :
                /\ tx' = [tx EXCEPT ![s] =
                            [Flushed(s) EXCEPT ![j.dataset] =
                               Overlay(@, Touched(out, View(s, j.dataset)))]]
                /\ pending' = [pending EXCEPT ![s] = EmptyTables]
                /\ job' = [job EXCEPT ![s].pc = "fresh", ![s].affected = out.n]
                /\ hist' = [hist EXCEPT ![s] = Append(@, Ev("upsert_many", TRUE, arg))]
                /\ UNCHANGED <<committed, clock, repo, calls, runs, dispatch>>
           \/ Raise(s, "upsert_many", arg)

\* data_freshness_repository.upsert_status(..., status="COMPLETED")
Freshness(s) ==
    /\ job[s].pc = "fresh"
    /\ LET j == job[s]
           arg == [dataset_name |-> j.dataset, last_run |-> j.now,
                   row_count |-> j.affected, status |-> "COMPLETED"]
       IN  \/ \E out \in UpsertStatus(s, j.dataset, j.now, j.affected, "COMPLETED") :
                /\ tx' = [tx EXCEPT ![s] = out.tx]
                /\ pending' = [pending EXCEPT ![s] = EmptyTables]
                /\ job' = [job EXCEPT ![s].pc = "audit"]
                /\ hist' = [hist EXCEPT ![s] = Append(@, Ev("upsert_status", TRUE, arg))]
                /\ UNCHANGED <<committed, clock, repo, calls, runs, dispatch>>
           \/ Raise(s, "upsert_status", arg)

\* db_session.add(ETLLog(..., status="COMPLETED"))
Audit(s) ==
    /\ job[s].pc = "audit"
    /\ LET j == job[s]
           row == ETLLog(NewId(j.now, "log", 1), j.dataset, EtlPayload(j), "COMPLETED", j.now)
       IN  \/ /\ pending' = [pending EXCEPT ![s]["etl_logs"] = @ \cup {row}]
              /\ job' = [job EXCEPT ![s].pc = "flush"]
              /\ hist' = [hist EXCEPT ![s] = Append(@, Ev("add", TRUE, row))]
              /\ UNCHANGED <<committed, tx, clock, repo, calls, runs, dispatch>>
           \/ Raise(s, "add", row)

\* db_session.flush(), then the return of the result.
FlushAndReturn(s) ==
    /\ job[s].pc = "flush"
    /\ \/ /\ tx' = [tx EXCEPT ![s] = Flushed(s)]
          /\ pending' = [pending EXCEPT ![s] = EmptyTables]
          /\ job' = [job EXCEPT ![s].pc = "returned", ![s].result = EtlResult(job[s])]
          /\ hist' = [hist EXCEPT ![s] = Append(@, Ev("flush", TRUE, None))]
          /\ UNCHANGED <<committed, clock, repo, calls, runs, dispatch>>
       \/ Raise(s, "flush", None)

\* The FAILED freshness upsert with its own exception swallowed: the except
\* block goes on to the audit entry.
ExceptFreshness_Swallowed(s) ==
    /\ job[s].pc = "x_fresh"
    /\ LET j == job[s]
           arg == [dataset_name |-> j.dataset, last_run |-> j.now,
                   row_count |-> 0, status |-> "FAILED"]
       IN  \/ \E out \in UpsertStatus(s, j.dataset, j.now, 0, "FAILED") :
                /\ tx' = [tx EXCEPT ![s] = out.tx]
                /\ pending' = [pending EXCEPT ![s] = EmptyTables]
                /\ job' = [job EXCEPT ![s].pc = "x_audit"]
                /\ hist' = [hist EXCEPT ![s] = Append(@, Ev("upsert_status", TRUE, arg))]
                /\ UNCHANGED <<committed, clock, repo, calls, runs, dispatch>>
           \/ /\ job' = [job EXCEPT ![s].pc = "x_audit"]
              /\ hist' = [hist EXCEPT ![s] = Append(@, Ev("upsert_status", FALSE, arg))]
              /\ UNCHANGED <<storeVars, clock, repo, calls, runs, dispatch>>

\* except Exception: upsert_status(..., row_count=0, status="FAILED")
ExceptFreshness(s) ==
    /\ job[s].pc = "x_fresh"
    /\ LET j == job[s]
           arg == [dataset_name |-> j.dataset, last_run |-> j.now,
                   row_count |-> 0, status |-> "FAILED"]
       IN  \/ \E out \in UpsertStatus(s, j.dataset, j.now, 0, "FAILED") :
                /\ tx' = [tx EXCEPT ![s] = out.tx]
                /\ pending' = [pending EXCEPT ![s] = EmptyTables]
                /\ job' = [job EXCEPT ![s].pc = "x_audit"]
                /\ hist' = [hist EXCEPT ![s] = Append(@, Ev("upsert_status", TRUE, arg))]
                /\ UNCHANGED <<committed, clock, repo, calls, runs, dispatch>>
           \/ RaiseInExcept(s, "upsert_status", arg)

\* except Exception: db_session.add(ETLLog(..., status="FAILED"))
ExceptAudit(s) ==
    /\ job[s].pc = "x_audit"
    /\ LET j == job[s]
           row == ETLLog(NewId(j.now, "log", 0), j.dataset, EtlPayload(j), "FAILED", j.now)
       IN  \/ /\ pending' = [pending EXCEPT ![s]["etl_logs"] = @ \cup {row}]
              /\ job' = [job EXCEPT ![s].pc = "x_flush"]
              /\ hist' = [hist EXCEPT ![s] = Append(@, Ev("add", TRUE, row))]
              /\ UNCHANGED <<committed, tx, clock, repo, calls, runs, dispatch>>
           \/ RaiseInExcept(s, "add", row)

\* except Exception: db_session.flush(), then the bare raise.
ExceptFlushAndReraise(s) ==
    /\ job[s].pc = "x_flush"
    /\ \/ /\ tx' = [tx EXCEPT ![s] = Flushed(s)]
          /\ pending' = [pending EXCEPT ![s] = EmptyTables]
          /\ job' = [job EXCEPT ![s].pc = "raised", ![s].raised = job[s].exc]
          /\ hist' = [hist EXCEPT ![s] = Append(@, Ev("flush", TRUE, None))]
          /\ UNCHANGED <<committed, clock, repo, calls, runs, dispatch>>
       \/ RaiseInExcept(s, "flush", None)

\* The caller's transaction boundary after run() returned: commit (the pending
\* objects are flushed first), and the session goes back to its factory.
CallerCommit(s) ==
    /\ job[s].pc = "returned"
    /\ committed' = [t \in Tables |-> Overlay(committed[t], Flushed(s)[t])]
    /\ tx' = [tx EXCEPT ![s] = EmptyTables]
    /\ pending' = [pending EXCEPT ![s] = EmptyTables]
    /\ job' = [job EXCEPT ![s] = IdleJob]
    /\ hist' = [hist EXCEPT ![s] = <<>>]
    /\ UNCHANGED <<clock, repo, calls, runs, dispatch>>

\* get_db(): db.close() in the finally clause; an open transaction is rolled
\* back and the pending objects are dropped.
CallerClose(s) ==
    /\ job[s].pc \in {"returned", "raised"}
    /\ tx' = [tx EXCEPT ![s] = EmptyTables]
    /\ pending' = [pending EXCEPT ![s] = EmptyTables]
    /\ job' = [job EXCEPT ![s] = IdleJob]
    /\ hist' = [hist EXCEPT ![s] = <<>>]
    /\ UNCHANGED <<committed, clock, repo, calls, runs, dispatch>>

InitEtl ==
    /\ committed = EmptyTables
    /\ tx = [s \in Sessions |-> EmptyTables]
    /\ pending = [s \in Sessions |-> EmptyTables]
    /\ clock = 0
    /\ repo = None
    /\ calls = NoCalls
    /\ dispatch = [s \in Sessions |-> IdleDispatch]
    /\ job = [s \in Sessions |-> IdleJob]
    /\ hist = [s \in Sessions |-> <<>>]
    /\ runs = 0

RunStep(s) ==
    \/ Fetch(s)
    \/ Upsert(s)
    \/ Freshness(s)
    \/ Audit(s)
    \/ FlushAndReturn(s)
    \/ ExceptFreshness(s)
    \/ ExceptAudit(s)
    \/ ExceptFlushAndReraise(s)

EtlStep(s) ==
    \/ RunStep(s)
    \/ CallerCommit(s)
    \/ CallerClose(s)

\* Runs one after the other on one session.
NextEtl == StartRun("s1", MaxRuns) \/ EtlStep("s1")

SpecEtl == InitEtl /\ [][NextEtl]_vars

\* Runs on two sessions at once (concurrent push deliveries).  The sessions
\* are interchangeable, so the second one is opened only while the first is
\* in use.
NextEtlConc ==
    \/ StartRun("s1", MaxConcRuns) \/ EtlStep("s1")
    \/ (job["s1"].pc # "idle" /\ StartRun("s2", MaxConcRuns)) \/ EtlStep("s2")

SpecEtlConc == InitEtl /\ [][NextEtlConc]_vars

\* ============================================= the embedding rebuild job
MaxEmbRuns == 1      \* run() invocations in one behaviour of SpecEmbed

\* settings.openai_embedding_dimensions
EmbeddingDimensions == 8

\* The code points of the geo_id strings of this model: Python compares str
\* values code point by code point, a proper prefix first.
CodePoints(g) ==
    CASE g = "accra-central" -> <<97, 99, 99, 114, 97, 45, 99, 101, 110, 116, 114, 97, 108>>
      [] g = "accra-north" -> <<97, 99, 99, 114, 97, 45, 110, 111, 114, 116, 104>>
      [] g = "accra" -> <<97, 99, 99, 114, 97>>
      [] g = "Zongo" -> <<90, 111, 110, 103, 111>>
      [] g = "tema-port" -> <<116, 101, 109, 97, 45, 112, 111, 114, 116>>

LexLess(a, b) ==
    LET ca == CodePoints(a)
        cb == CodePoints(b)
    IN  \E i \in 1..(Len(cb)) :
           /\ i <= Len(ca) + 1
           /\ \A k \in 1..(i - 1) : ca[k] = cb[k]
           /\ (i = Len(ca) + 1 \/ ca[i] < cb[i])

\* Sorted with the comparison reversed.
RECURSIVE Sorted_Descending(_)
Sorted_Descending(S) ==
    IF S = {} THEN <<>>
    ELSE LET m == CHOOSE x \in S : \A y \in S \ {x} : LexLess(y, x)
         IN  <<m>> \o Sorted_Descending(S \ {m})

\* sorted(geo_ids)
RECURSIVE Sorted(_)
Sorted(S) ==
    IF S = {} THEN <<>>
    ELSE LET m == CHOOSE x \in S : \A y \in S \ {x} : LexLess(x, y)
         IN  <<m>> \o Sorted(S \ {m})

Range(seq) == {seq[i] : i \in 1..Len(seq)}

\* Python truthiness of an optional str argument.
Truthy(v) == v # None /\ v # ""

\* An optional list argument (list[str] | None) and its truthiness.
NoList == [some |-> FALSE, list |-> <<>>]
SomeList(l) == [some |-> TRUE, list |-> l]
TruthyList(v) == v.some /\ v.list # <<>>

\* list_by_city / get_for_regions / list_by_city_and_type(business_type=None):
\* the rows of the city (and of the country, when one is given).
CityRows(s, t, city, country) ==
    {r \in View(s, t) : r.city = city /\ (Truthy(country) => r.country = country)}

\* The orders in which a query can hand back a set of rows: ORDER BY geo_id,
\* category or business_type leaves rows with equal sort values, and rows of
\* different regions under ORDER BY category, in any order.
RECURSIVE Orders(_)
Orders(S) ==
    IF S = {} THEN {<<>>}
    ELSE UNION { {<<x>> \o rest : rest \in Orders(S \ {x})} : x \in S }

\* geo_ids of run(): the union over the four result sets, narrowed to
\* region_filter = set(regions) if regions else None.
SelectGeoIds(rows, regions) ==
    LET union == UNION { {rows[t][i].geo_id : i \in 1..Len(rows[t])} : t \in Datasets }
    IN  IF TruthyList(regions) THEN {g \in union : g \in Range(regions.list)}
        ELSE union

\* _build_region_document: the snapshot of one region, without the columns
\* that are passed through str() (those need no part in any property here).
RegionDocument(g, j) ==
    LET Here(r) == r.geo_id = g
        demo == SelectSeq(j.rows["demographics"], Here)
        lab == SelectSeq(j.rows["labour_stats"], Here)
        sp == SelectSeq(j.rows["spending"], Here)
        den == SelectSeq(j.rows["business_density"], Here)
    IN  [geo_id |-> g, city |-> j.city, country |-> j.country,
         demographics |-> IF demo = <<>> THEN <<>> ELSE <<demo[1].population_total>>,
         labour_stats |-> IF lab = <<>> THEN <<>> ELSE <<lab[1].job_openings>>,
         spending |-> [i \in 1..Len(sp) |-> sp[i].category],
         business_density |-> [i \in 1..Len(den) |->
                                  <<den[i].business_type, den[i].count>>],
         options |-> j.options]

Metadata(g, j) ==
    [geo_id |-> g, city |-> j.city, country |-> j.country, options |-> j.options]

\* A vector handed back by the embedding client: its length and its position
\* in the returned list.
Vec(pos, dim) == [pos |-> pos, dim |-> dim]

\* What embed_texts can return for n texts: one vector of the configured
\* length per text; the same with one vector a component short; one vector
\* too few; one too many.
EmbedResults(n) ==
    LET good(m) == [i \in 1..m |-> Vec(i, EmbeddingDimensions)]
    IN  {good(n), good(n + 1)}
        \cup {[good(n) EXCEPT ![k] = Vec(k, EmbeddingDimensions - 1)] : k \in 1..n}
        \cup (IF n > 0 THEN {good(n - 1)} ELSE {})

\* VectorInsightsRepository.upsert_many up to its final flush: the loop over
\* the input rows, keyed by (tenant_id, geo_id).
RECURSIVE VectorUpsertLoop(_, _, _, _)
VectorUpsertLoop(rows, ts, i, st) ==
    IF i > Len(rows) THEN {st}
    ELSE LET input == rows[i]
             matches == {r \in st.objs : /\ r.geo_id = input.geo_id
                                         /\ r.tenant_id = input.tenant_id}
             Upd(e) == [e EXCEPT !.embedding = input.embedding,
                                 !.metadata_json = input.metadata,
                                 !.created_at = IsoFormat(ts)]
         IN  IF matches # {}
             THEN UNION { VectorUpsertLoop(rows, ts, i + 1,
                            [st EXCEPT !.objs = (@ \ {e}) \cup {Upd(e)},
                                       !.n = @ + 1]) : e \in matches }
             ELSE VectorUpsertLoop(rows, ts, i + 1,
                            [st EXCEPT
                               !.news = @ \cup {[id |-> NewId(ts, "vec", i),
                                                 tenant_id |-> input.tenant_id,
                                                 geo_id |-> input.geo_id,
                                                 embedding |-> input.embedding,
                                                 metadata_json |-> input.metadata,
                                                 created_at |-> IsoFormat(ts)]},
                               !.n = @ + 1])

\* upsert_many without the SELECT for an existing row.
VectorUpsertMany_InsertOnly(objs, rows, ts) ==
    VectorUpsertLoop(rows, ts, 1, [objs |-> {}, news |-> {}, n |-> 0])

VectorUpsertMany(objs, rows, ts) ==
    VectorUpsertLoop(rows, ts, 1, [objs |-> objs, news |-> {}, n |-> 0])

IdleEmb == [pc |-> "idle", kind |-> "embed", now |-> 0, country |-> None,
            city |-> None, regions |-> NoList, options |-> None, tenant_id |-> None,
            rows |-> [t \in Datasets |-> <<>>], ordered_geo_ids |-> <<>>,
            documents |-> <<>>, metadatas |-> <<>>, embeddings |-> <<>>,
            upsert_rows |-> <<>>, affected |-> 0, exc |-> NoExc, raised |-> NoExc,
            result |-> None]

EmbPayload(j) == [country |-> j.country, city |-> j.city, regions |-> j.regions,
                  options |-> j.options]

EmbCities == {"Accra", "", None}
EmbRegions == {NoList, SomeList(<<>>), SomeList(<<"accra-north">>),
               SomeList(<<"Zongo", "accra", "Zongo">>),
               SomeList(<<"tema-port", "accra">>)}

\* run() entering the try block without the check of city.
EmbEntered_CityUnchecked(now, co, ci, rg, o) ==
    [IdleEmb EXCEPT !.pc = "e_read", !.now = now, !.country = co, !.city = ci,
                    !.regions = rg, !.options = o]

\* run() up to the try block: job_name, now, and the check of city.
EmbEntered(now, co, ci, rg, o) ==
    LET j == [IdleEmb EXCEPT !.now = now, !.country = co, !.city = ci,
                             !.regions = rg, !.options = o]
    IN  IF Truthy(ci) THEN [j EXCEPT !.pc = "e_read"]
        ELSE [j EXCEPT !.pc = "raised", !.raised = Exc("before_try", "city")]

\* A direct call of RebuildEmbeddingsJob.run, among at most max runs, for one
\* of the given tenants (None: the default of the parameter).
EmbStartUpTo(s, max, tenants) ==
    /\ job[s].pc = "idle"
    /\ runs < max
    /\ \E co \in Countries \cup {None}, ci \in EmbCities, rg \in EmbRegions,
          tn \in tenants :
         job' = [job EXCEPT ![s] =
                    [EmbEntered(clock + 1, co, ci, rg, EmptyOptions)
                        EXCEPT !.tenant_id = tn]]
    /\ clock' = clock + 1
    /\ runs' = runs + 1
    /\ hist' = [hist EXCEPT ![s] = <<>>]
    /\ UNCHANGED <<storeVars, repo, calls, dispatch>>

EmbStart(s) == EmbStartUpTo(s, MaxEmbRuns, {None})

EmbRaise(s, op, arg) ==
    /\ job' = [job EXCEPT ![s].pc = "e_x_audit", ![s].exc = Exc("try", op)]
    /\ hist' = [hist EXCEPT ![s] = Append(@, Ev(op, FALSE, arg))]
    /\ UNCHANGED <<storeVars, clock, repo, calls, runs, dispatch>>

\* The four repository reads, geo_ids, ordered_geo_ids, documents, metadatas.
EmbRead(s) ==
    /\ job[s].pc = "e_read"
    /\ LET j == job[s]
       IN  \/ \E rows \in [Datasets -> UNION {Orders(CityRows(s, t, j.city, j.country)) :
                                                t \in Datasets}] :
                /\ \A t \in Datasets : rows[t] \in Orders(CityRows(s, t, j.city, j.country))
                /\ LET jr == [j EXCEPT !.rows = rows]
                       ordered == Sorted(SelectGeoIds(rows, j.regions))
                   IN  job' = [job EXCEPT ![s] =
                                 [jr EXCEPT
                                    !.pc = "e_embed",
                                    !.ordered_geo_ids = ordered,
                                    !.documents = [i \in 1..Len(ordered) |->
                                                     RegionDocument(ordered[i], jr)],
                                    !.metadatas = [i \in 1..Len(ordered) |->
                                                     Metadata(ordered[i], jr)]]]
                /\ hist' = [hist EXCEPT ![s] = Append(@, Ev("read", TRUE, j.city))]
                /\ UNCHANGED <<storeVars, clock, repo, calls, runs, dispatch>>
           \/ EmbRaise(s, "read", j.city)

\* embedding_client.embed_texts(documents)
EmbEmbed(s) ==
    /\ job[s].pc = "e_embed"
    /\ \/ \E vecs \in EmbedResults(Len(job[s].documents)) :
            /\ job' = [job EXCEPT ![s].pc = "e_check", ![s].embeddings = vecs]
            /\ hist' = [hist EXCEPT ![s] =
                          Append(@, Ev("embed_texts", TRUE, job[s].documents))]
            /\ UNCHANGED <<storeVars, clock, repo, calls, runs, dispatch>>
       \/ EmbRaise(s, "embed_texts", job[s].documents)

\* EmbCheck raising only when every vector has the wrong length.
EmbCheck_All(s) ==
    /\ job[s].pc = "e_check"
    /\ LET j == job[s]
       IN  IF j.embeddings # <<>> /\ \A i \in 1..Len(j.embeddings) :
                                       j.embeddings[i].dim # EmbeddingDimensions
           THEN EmbRaise(s, "dimension_check", None)
           ELSE IF Len(j.embeddings) < Len(j.ordered_geo_ids)
           THEN EmbRaise(s, "index", None)
           ELSE /\ job' = [job EXCEPT ![s].pc = "e_upsert",
                                      ![s].upsert_rows =
                                         [i \in 1..Len(j.ordered_geo_ids) |->
                                            [tenant_id |-> j.tenant_id,
                                             geo_id |-> j.ordered_geo_ids[i],
                                             embedding |-> j.embeddings[i],
                                             metadata |-> j.metadatas[i]]]]
                /\ UNCHANGED <<storeVars, clock, repo, calls, runs, hist, dispatch>>

\* The dimension check (ValueError) and the loop that builds upsert_rows
\* (IndexError on embeddings[idx] when a vector is missing).
EmbCheck(s) ==
    /\ job[s].pc = "e_check"
    /\ LET j == job[s]
       IN  IF \E i \in 1..Len(j.embeddings) : j.embeddings[i].dim # EmbeddingDimensions
           THEN EmbRaise(s, "dimension_check", None)
           ELSE IF Len(j.embeddings) < Len(j.ordered_geo_ids)
           THEN EmbRaise(s, "index", None)
           ELSE /\ job' = [job EXCEPT ![s].pc = "e_upsert",
                                      ![s].upsert_rows =
                                         [i \in 1..Len(j.ordered_geo_ids) |->
                                            [tenant_id |-> j.tenant_id,
                                             geo_id |-> j.ordered_geo_ids[i],
                                             embedding |-> j.embeddings[i],
                                             metadata |-> j.metadatas[i]]]]
                /\ UNCHANGED <<storeVars, clock, repo, calls, runs, hist, dispatch>>

\* vector_insights_repository.upsert_many(db_session, upsert_rows, created_at=now)
EmbUpsert(s) ==
    /\ job[s].pc = "e_upsert"
    /\ LET j == job[s]
           view == View(s, "vector_insights")
       IN  \/ \E out \in VectorUpsertMany(view, j.upsert_rows, j.now) :
                /\ tx' = [tx EXCEPT ![s] =
                            [Flushed(s) EXCEPT !["vector_insights"] =
                               Overlay(@, Touched(out, view))]]
                /\ pending' = [pending EXCEPT ![s] = EmptyTables]
                /\ job' = [job EXCEPT ![s].pc = "e_audit", ![s].affected = out.n]
                /\ hist' = [hist EXCEPT ![s] =
                              Append(@, Ev("vector_upsert_many", TRUE, j.upsert_rows))]
                /\ UNCHANGED <<committed, clock, repo, calls, runs, dispatch>>
           \/ EmbRaise(s, "vector_upsert_many", j.upsert_rows)

\* db_session.add(ETLLog(job_name="rebuild-embeddings", status="COMPLETED"))
EmbAudit(s) ==
    /\ job[s].pc = "e_audit"
    /\ LET j == job[s]
           row == ETLLog(NewId(j.now, "log", 1), "rebuild-embeddings", EmbPayload(j),
                         "COMPLETED", j.now)
       IN  \/ /\ pending' = [pending EXCEPT ![s]["etl_logs"] = @ \cup {row}]
              /\ job' = [job EXCEPT ![s].pc = "e_flush"]
              /\ hist' = [hist EXCEPT ![s] = Append(@, Ev("add", TRUE, row))]
              /\ UNCHANGED <<committed, tx, clock, repo, calls, runs, dispatch>>
           \/ EmbRaise(s, "add", row)

\* db_session.flush(), then the return of RebuildEmbeddingsResult.
EmbFlushAndReturn(s) ==
    /\ job[s].pc = "e_flush"
    /\ \/ /\ tx' = [tx EXCEPT ![s] = Flushed(s)]
          /\ pending' = [pending EXCEPT ![s] = EmptyTables]
          /\ job' = [job EXCEPT ![s].pc = "returned",
                                ![s].result =
                                   [job_name |-> "rebuild-embeddings",
                                    status |-> "COMPLETED",
                                    row_count |-> job[s].affected,
                                    country |-> job[s].country, city |-> job[s].city,
                                    region_count |-> Len(job[s].ordered_geo_ids)]]
          /\ hist' = [hist EXCEPT ![s] = Append(@, Ev("flush", TRUE, None))]
          /\ UNCHANGED <<committed, clock, repo, calls, runs, dispatch>>
       \/ EmbRaise(s, "flush", None)

\* The FAILED entry taking the place of the entries the session holds unflushed.
EmbExceptAudit_ReplacesPending(s) ==
    /\ job[s].pc = "e_x_audit"
    /\ LET j == job[s]
           row == ETLLog(NewId(j.now, "log", 0), "rebuild-embeddings", EmbPayload(j),
                         "FAILED", j.now)
       IN  \/ /\ pending' = [pending EXCEPT ![s]["etl_logs"] = {row}]
              /\ job' = [job EXCEPT ![s].pc = "e_x_flush"]
              /\ hist' = [hist EXCEPT ![s] = Append(@, Ev("add", TRUE, row))]
              /\ UNCHANGED <<committed, tx, clock, repo, calls, runs, dispatch>>
           \/ RaiseInExcept(s, "add", row)

\* except Exception: db_session.add(ETLLog(..., status="FAILED"))
EmbExceptAudit(s) ==
    /\ job[s].pc = "e_x_audit"
    /\ LET j == job[s]
           row == ETLLog(NewId(j.now, "log", 0), "rebuild-embeddings", EmbPayload(j),
                         "FAILED", j.now)
       IN  \/ /\ pending' = [pending EXCEPT ![s]["etl_logs"] = @ \cup {row}]
              /\ job' = [job EXCEPT ![s].pc = "e_x_flush"]
              /\ hist' = [hist EXCEPT ![s] = Append(@, Ev("add", TRUE, row))]
              /\ UNCHANGED <<committed, tx, clock, repo, calls, runs, dispatch>>
           \/ RaiseInExcept(s, "add", row)

\* The except block rolling the session back before the bare raise.
EmbExceptFlushAndReraise_RollsBack(s) ==
    /\ job[s].pc = "e_x_flush"
    /\ tx' = [tx EXCEPT ![s] = EmptyTables]
    /\ pending' = [pending EXCEPT ![s] = EmptyTables]
    /\ job' = [job EXCEPT ![s].pc = "raised", ![s].raised = job[s].exc]
    /\ hist' = [hist EXCEPT ![s] = Append(@, Ev("rollback", TRUE, None))]
    /\ UNCHANGED <<committed, clock, repo, calls, runs, dispatch>>

\* except Exception: db_session.flush(), then the bare raise.
EmbExceptFlushAndReraise(s) ==
    /\ job[s].pc = "e_x_flush"
    /\ \/ /\ tx' = [tx EXCEPT ![s] = Flushed(s)]
          /\ pending' = [pending EXCEPT ![s] = EmptyTables]
          /\ job' = [job EXCEPT ![s].pc = "raised", ![s].raised = job[s].exc]
          /\ hist' = [hist EXCEPT ![s] = Append(@, Ev("flush", TRUE, None))]
          /\ UNCHANGED <<committed, clock, repo, calls, runs, dispatch>>
       \/ RaiseInExcept(s, "flush", None)

\* The dataset rows the rebuild job can find: rows as the ETL jobs (or the
\* seed script) leave them, one region or none per table, two categories for
\* a spending region, and a demographics row of another city.
SeedRow(d, geo, city, sub, k) ==
    LET key == [geo_id |-> geo, city |-> city, country |-> "GH"]
        input == CASE d = "spending" ->
                        [f \in DOMAIN key \cup {"category"} |->
                            IF f = "category" THEN sub ELSE key[f]]
                   [] d = "business_density" ->
                        [f \in DOMAIN key \cup {"business_type"} |->
                            IF f = "business_type" THEN sub ELSE key[f]]
                   [] OTHER -> key
    IN  NewRow(d, input, 0, NewId(0, "row", k))

SeedTables ==
    { [t \in Tables |->
          CASE t = "demographics" -> de
            [] t = "spending" -> sp
            [] t = "labour_stats" -> la
            [] t = "business_density" -> bd
            [] OTHER -> {}] :
        de \in { {},
                 {SeedRow("demographics", "accra-north", "Accra", None, 1)},
                 {SeedRow("demographics", "accra-north", "Accra", None, 1),
                  SeedRow("demographics", "Zongo", "Accra", None, 2)},
                 {SeedRow("demographics", "tema-port", "Tema", None, 3)} },
        sp \in { {},
                 {SeedRow("spending", "accra", "Accra", "dining", 1),
                  SeedRow("spending", "accra", "Accra", "groceries", 2)} },
        la \in { {}, {SeedRow("labour_stats", "Zongo", "Accra", None, 1)} },
        bd \in { {}, {SeedRow("business_density", "accra-north", "Accra", "cafes", 1)} } }

InitEmbed ==
    /\ committed \in SeedTables
    /\ tx = [s \in Sessions |-> EmptyTables]
    /\ pending = [s \in Sessions |-> EmptyTables]
    /\ clock = 0
    /\ repo = None
    /\ calls = NoCalls
    /\ dispatch = [s \in Sessions |-> IdleDispatch]
    /\ job = [s \in Sessions |-> IdleJob]
    /\ hist = [s \in Sessions |-> <<>>]
    /\ runs = 0

\* The steps of one run of RebuildEmbeddingsJob.run after its entry.
EmbRunStep(s) ==
    \/ EmbRead(s)
    \/ EmbEmbed(s)
    \/ EmbCheck(s)
    \/ EmbUpsert(s)
    \/ EmbAudit(s)
    \/ EmbFlushAndReturn(s)
    \/ EmbExceptAudit(s)
    \/ EmbExceptFlushAndReraise(s)

NextEmbed ==
    \/ EmbStart("s1")
    \/ EmbRunStep("s1")
    \/ CallerCommit("s1")
    \/ CallerClose("s1")

SpecEmbed == InitEmbed /\ [][NextEmbed]_vars

\* ================================= the Overpass business density source
MaxOverpassRuns == 2   \* run() invocations in one behaviour of SpecOverpass

\* settings.osm_business_type_specs, in the order of the dict.
OsmBusinessTypes == <<"cafes", "restaurants", "gyms">>

\* settings.osm_default_country
OsmDefaultCountry == "NA"

\* _build_city_geo_id: the city in lower case, trimmed, blanks as hyphens,
\* followed by "-" and settings.osm_city_geo_id_suffix.
BuildCityGeoId(city) ==
    CASE city = "Accra" -> "accra-citywide"
      [] city = "Cape Coast" -> "cape-coast-citywide"

\* What the provider answers to one query: the status code and the number of
\* elements of the body.
HttpResponses ==
    {[status |-> 200, elements |-> "0"], [status |-> 200, elements |-> "2"],
     [status |-> 503, elements |-> "0"]}

\* response.raise_for_status()
IsSuccess(response) == response.status \in 200..299

\* The loop of fetch_business_density: one query per business type; rows is
\* the local list, lost when raise_for_status raises.
RECURSIVE OverpassLoop(_, _, _, _, _)
OverpassLoop(resolved_country, city, responses, i, rows) ==
    IF i > Len(OsmBusinessTypes)
    THEN [raised |-> FALSE, rows |-> rows, built |-> rows]
    ELSE IF ~IsSuccess(responses[i])
         THEN [raised |-> TRUE, rows |-> <<>>, built |-> rows]
         ELSE OverpassLoop(resolved_country, city, responses, i + 1,
                 Append(rows, [geo_id |-> BuildCityGeoId(city),
                               country |-> resolved_country,
                               city |-> city,
                               business_type |-> OsmBusinessTypes[i],
                               count |-> responses[i].elements,
                               density_score |-> None]))

\* OverpassBusinessDensitySourceClient.fetch_business_density
FetchBusinessDensity(country, city, responses) ==
    IF ~Truthy(city) THEN [raised |-> TRUE, rows |-> <<>>, built |-> <<>>]
    ELSE OverpassLoop(IF Truthy(country) THEN country ELSE OsmDefaultCountry,
                      city, responses, 1, <<>>)

\* BusinessDensityEtlJob.run entered by a caller.
StartBusinessDensityRun(s) ==
    /\ job[s].pc = "idle"
    /\ runs < MaxOverpassRuns
    /\ \E co \in Countries \cup {None}, ci \in Cities \cup {None} :
         job' = [job EXCEPT ![s] =
                    RunEntered("business_density", clock + 1, co, ci, EmptyOptions)]
    /\ clock' = clock + 1
    /\ runs' = runs + 1
    /\ hist' = [hist EXCEPT ![s] = <<>>]
    /\ UNCHANGED <<storeVars, repo, calls, dispatch>>

\* self._source_client.fetch_business_density(...) with the Overpass client.
OverpassFetch(s) ==
    /\ job[s].pc = "fetch"
    /\ job[s].dataset = "business_density"
    /\ \E responses \in [1..Len(OsmBusinessTypes) -> HttpResponses] :
         LET out == FetchBusinessDensity(job[s].country, job[s].city, responses)
             arg == [responses |-> responses, built |-> out.built]
         IN  IF out.raised
             THEN Raise(s, "fetch", arg)
             ELSE /\ job' = [job EXCEPT ![s].pc = "upsert", ![s].raw_rows = out.rows]
                  /\ hist' = [hist EXCEPT ![s] = Append(@, Ev("fetch", TRUE, arg))]
                  /\ UNCHANGED <<storeVars, clock, repo, calls, runs, dispatch>>

NextOverpass ==
    \/ StartBusinessDensityRun("s1")
    \/ OverpassFetch("s1")
    \/ Upsert("s1")
    \/ Freshness("s1")
    \/ Audit("s1")
    \/ FlushAndReturn("s1")
    \/ ExceptFreshness("s1")
    \/ ExceptAudit("s1")
    \/ ExceptFlushAndReraise("s1")
    \/ CallerCommit("s1")
    \/ CallerClose("s1")

SpecOverpass == InitEtl /\ [][NextOverpass]_vars

\* ============================================ rebuild runs, one after another
MaxVectorRuns == 2   \* run() invocations in one behaviour of SpecVector

\* The database with two regions in demographics and a third in spending.
VectorSeeds ==
    {t \in SeedTables : /\ Cardinality(t["demographics"]) = 2
                        /\ t["spending"] # {}
                        /\ t["labour_stats"] = {}
                        /\ t["business_density"] = {}}

InitVector ==
    /\ committed \in VectorSeeds
    /\ tx = [s \in Sessions |-> EmptyTables]
    /\ pending = [s \in Sessions |-> EmptyTables]
    /\ clock = 0
    /\ repo = None
    /\ calls = NoCalls
    /\ dispatch = [s \in Sessions |-> IdleDispatch]
    /\ job = [s \in Sessions |-> IdleJob]
    /\ hist = [s \in Sessions |-> <<>>]
    /\ runs = 0

NextVector ==
    \/ EmbStartUpTo("s1", MaxVectorRuns, {None, "t1"})
    \/ EmbRunStep("s1")
    \/ CallerCommit("s1")
    \/ CallerClose("s1")

SpecVector == InitVector /\ [][NextVector]_vars

\* ================================ ETL runs and rebuild runs on one database
MaxAuditRuns == 2    \* run() invocations in one behaviour of SpecAudit

\* Runs of the four ETL jobs and of the rebuild job, one after the other on
\* one session, each followed by the caller's commit or close.
NextAudit ==
    \/ StartRun("s1", MaxAuditRuns)
    \/ RunStep("s1")
    \/ EmbStartUpTo("s1", MaxAuditRuns, {None})
    \/ EmbRunStep("s1")
    \/ CallerCommit("s1")
    \/ CallerClose("s1")

SpecAudit == InitEtl /\ [][NextAudit]_vars

\* ================================================= the ingestion worker
MaxDispatch == 2     \* consume() invocations in one behaviour of SpecDispatch

\* Strings the worker inspects character by character are sequences of
\* one-character strings.
UpperCase == <<"A", "B", "C", "D", "E", "F", "G", "H", "I", "J", "K", "L", "M",
               "N", "O", "P", "Q", "R", "S", "T", "U", "V", "W", "X", "Y", "Z">>
LowerCase == <<"a", "b", "c", "d", "e", "f", "g", "h", "i", "j", "k", "l", "m",
               "n", "o", "p", "q", "r", "s", "t", "u", "v", "w", "x", "y", "z">>

\* The characters str.strip() removes, as far as this model's strings go.
Whitespace == {" ", "\t", "\n"}

\* str.lower()
StrLower(str) ==
    [i \in 1..Len(str) |->
        IF \E k \in 1..Len(UpperCase) : UpperCase[k] = str[i]
        THEN LowerCase[CHOOSE k \in 1..Len(UpperCase) : UpperCase[k] = str[i]]
        ELSE str[i]]

\* str.replace(old, new) for one-character old and new
StrReplace(str, old, new) ==
    [i \in 1..Len(str) |-> IF str[i] = old THEN new ELSE str[i]]

RECURSIVE LStrip(_)
LStrip(str) ==
    IF str # <<>> /\ Head(str) \in Whitespace THEN LStrip(Tail(str)) ELSE str

RECURSIVE RStrip(_)
RStrip(str) ==
    IF str # <<>> /\ str[Len(str)] \in Whitespace
    THEN RStrip(SubSeq(str, 1, Len(str) - 1))
    ELSE str

\* str.strip()
StrStrip(str) == RStrip(LStrip(str))

\* The normalisation with the hyphens left in place.
NormalizeDatasetName_HyphensKept(dataset_name) ==
    StrStrip(StrLower(dataset_name))

\* _normalize_dataset_name: dataset_name.lower().replace("-", "_").strip()
NormalizeDatasetName(dataset_name) ==
    StrStrip(StrReplace(StrLower(dataset_name), "-", "_"))

\* JSON values of a payload.  payload.get(key) is None for an absent key and
\* for a null alike, so both are JNull.
JNull == [type |-> "null", val |-> <<>>]
JStr(chars) == [type |-> "str", val |-> chars]
JInt(digits) == [type |-> "int", val |-> digits]
JDict(items) == [type |-> "dict", val |-> items]

\* from_payload with job_name taking precedence over dataset.
FromPayload_JobNameFirst(payload) ==
    LET job_name == payload.job_name
        dataset_value == payload.dataset
        dataset ==
            IF job_name.type = "str" /\ job_name.val # <<>>
            THEN job_name.val
            ELSE IF dataset_value.type = "str" /\ StrStrip(dataset_value.val) # <<>>
                 THEN dataset_value.val
                 ELSE <<>>
    IN  [job_name |-> IF job_name.type = "str" THEN job_name ELSE JNull,
         dataset |-> dataset,
         country |-> payload.country,
         city |-> payload.city,
         options |-> IF payload.options.type = "dict" /\ payload.options.val # <<>>
                     THEN payload.options.val
                     ELSE EmptyOptions]

\* IngestionMessage.from_payload
FromPayload(payload) ==
    LET job_name == payload.job_name
        resolved_job_name == IF job_name.type = "str" THEN job_name ELSE JNull
        dataset_value == payload.dataset
        dataset ==
            IF dataset_value.type = "str" /\ StrStrip(dataset_value.val) # <<>>
            THEN dataset_value.val
            ELSE IF resolved_job_name.type = "str" /\ resolved_job_name.val # <<>>
                 THEN resolved_job_name.val
                 ELSE <<>>
    IN  [job_name |-> resolved_job_name,
         dataset |-> dataset,
         country |-> payload.country,
         city |-> payload.city,
         options |-> IF payload.options.type = "dict" /\ payload.options.val # <<>>
                     THEN payload.options.val
                     ELSE EmptyOptions]

\* create_default: the names and the job instance registered under each.
DefaultHandlers ==
    <<
       <<<<"b", "u", "s", "i", "n", "e", "s", "s", "_", "d", "e", "n", "s",
         "i", "t", "y">>,
         "business_density_job">>,
       <<<<"b", "u", "s", "i", "n", "e", "s", "s", "-", "d", "e", "n", "s",
         "i", "t", "y", "-", "r", "e", "f", "r", "e", "s", "h">>,
         "business_density_job">>,
       <<<<"d", "e", "m", "o", "g", "r", "a", "p", "h", "i", "c", "s">>,
         "demographics_job">>,
       <<<<"c", "e", "n", "s", "u", "s", "-", "d", "e", "m", "o", "g", "r",
         "a", "p", "h", "i", "c", "s", "-", "r", "e", "f", "r", "e", "s",
         "h">>,
         "demographics_job">>,
       <<<<"l", "a", "b", "o", "u", "r">>,
         "labour_stats_job">>,
       <<<<"l", "a", "b", "o", "u", "r", "-", "s", "t", "a", "t", "s", "-",
         "r", "e", "f", "r", "e", "s", "h">>,
         "labour_stats_job">>,
       <<<<"l", "a", "b", "o", "u", "r", "_", "s", "t", "a", "t", "s">>,
         "labour_stats_job">>,
       <<<<"s", "p", "e", "n", "d", "i", "n", "g">>,
         "spending_job">>,
       <<<<"s", "p", "e", "n", "d", "i", "n", "g", "-", "s", "t", "a", "t",
         "s", "-", "r", "e", "f", "r", "e", "s", "h">>,
         "spending_job">>
    >>

\* dataset_name of the job instance's run()
JobDataset(handler) ==
    CASE handler = "business_density_job" -> "business_density"
      [] handler = "demographics_job" -> "demographics"
      [] handler = "labour_stats_job" -> "labour_stats"
      [] handler = "spending_job" -> "spending"

\* __init__: the dict comprehension over handlers_by_dataset.items(); of two
\* names with one normal form the later one's handler stays.
HandlersByDataset(registered) ==
    LET keys == {NormalizeDatasetName(registered[i][1]) : i \in 1..Len(registered)}
        last(k) == CHOOSE i \in 1..Len(registered) :
                      /\ NormalizeDatasetName(registered[i][1]) = k
                      /\ \A m \in 1..Len(registered) :
                            NormalizeDatasetName(registered[m][1]) = k => m <= i
    IN  [k \in keys |-> registered[last(k)][2]]

\* Identifiers of the payloads delivered in this model.
IdBusinessDensityRefresh ==
    <<"b", "u", "s", "i", "n", "e", "s", "s", "-", "d", "e", "n", "s", "i",
    "t", "y", "-", "r", "e", "f", "r", "e", "s", "h">>
IdBusinessDensity ==
    <<"b", "u", "s", "i", "n", "e", "s", "s", "_", "d", "e", "n", "s", "i",
    "t", "y">>
IdLabourStatsRefreshMixed ==
    <<"L", "a", "b", "o", "u", "r", "-", "S", "t", "a", "t", "s", "-", "R",
    "e", "f", "r", "e", "s", "h", " ">>
IdLabourStatsRefresh ==
    <<"l", "a", "b", "o", "u", "r", "_", "s", "t", "a", "t", "s", "_", "r",
    "e", "f", "r", "e", "s", "h">>
IdSpendingPadded ==
    <<"\t", "S", "P", "E", "N", "D", "I", "N", "G", "\n">>
IdWeather ==
    <<"w", "e", "a", "t", "h", "e", "r">>
IdLabourSpaceStats ==
    <<"l", "a", "b", "o", "u", "r", " ", "s", "t", "a", "t", "s">>
IdBlank ==
    <<" ", " ">>

Identifiers ==
    {IdBusinessDensityRefresh, IdBusinessDensity, IdLabourStatsRefreshMixed,
     IdLabourStatsRefresh, IdSpendingPadded, IdWeather, IdLabourSpaceStats,
     IdBlank}

\* Payloads of the push deliveries: the identifier in the dataset field, in
\* job_name with dataset absent, blank or not a string, in both fields with
\* different jobs named, or in neither.
IngestionPayloads ==
    LET identifying ==
            {[dataset |-> JStr(id), job_name |-> JNull] : id \in Identifiers}
            \cup {[dataset |-> JNull, job_name |-> JStr(IdLabourStatsRefreshMixed)],
                  [dataset |-> JInt(<<"7">>), job_name |-> JStr(IdBusinessDensityRefresh)],
                  [dataset |-> JStr(IdBlank), job_name |-> JStr(IdLabourStatsRefresh)],
                  [dataset |-> JStr(IdBusinessDensity), job_name |-> JStr(IdLabourStatsRefresh)],
                  [dataset |-> JNull, job_name |-> JStr(IdBlank)],
                  [dataset |-> JNull, job_name |-> JStr(<<>>)],
                  [dataset |-> JNull, job_name |-> JNull]}
    IN  {[dataset |-> p.dataset, job_name |-> p.job_name, country |-> co,
          city |-> ci, options |-> JNull] :
            p \in identifying, co \in Countries, ci \in Cities}
        \cup {[dataset |-> JStr(id), job_name |-> JNull, country |-> co,
                city |-> ci, options |-> o] :
                 id \in {IdBusinessDensityRefresh, IdBusinessDensity},
                 co \in Countries, ci \in Cities,
                 o \in {JDict(<<>>), JDict(<<"source", "stub">>)}}

\* The rejection with the normalised identifier in the error.
UnsupportedJob_NormalizedIdentifier(entered, identifier, text) ==
    [entered EXCEPT !.pc = "raised", !.logged = <<text>>,
                    !.error = Exc("consume", "ValueError"),
                    !.unsupported = entered.normalized]

\* handler is None: logger.error(...), then raise ValueError(f"...: {identifier}")
UnsupportedJob(entered, identifier, text) ==
    [entered EXCEPT !.pc = "raised", !.logged = <<text>>,
                    !.error = Exc("consume", "ValueError"),
                    !.unsupported = identifier]

\* consume() up to the call of handler.run: decode, normalise, look the handler
\* up; no handler raises ValueError carrying message.dataset.
Consume(s) ==
    /\ dispatch[s].pc = "idle"
    /\ job[s].pc = "idle"
    /\ runs < MaxDispatch
    /\ \E payload \in IngestionPayloads :
         LET message == FromPayload(payload)
             normalized_dataset == NormalizeDatasetName(message.dataset)
             handlers == HandlersByDataset(DefaultHandlers)
             entered == [IdleDispatch EXCEPT !.worker = "ingestion",
                                             !.payload = payload,
                                             !.dataset = message.dataset,
                                             !.normalized = normalized_dataset]
         IN  IF normalized_dataset \notin DOMAIN handlers
             THEN /\ dispatch' = [dispatch EXCEPT ![s] =
                        UnsupportedJob(entered, message.dataset,
                                       "Unsupported ingestion dataset")]
                  /\ UNCHANGED <<job, clock>>
             ELSE LET handler == handlers[normalized_dataset]
                  IN  /\ dispatch' = [dispatch EXCEPT ![s] =
                            [entered EXCEPT
                               !.pc = "running",
                               !.handler = handler,
                               !.country = message.country,
                               !.city = message.city,
                               !.options = message.options,
                               !.logged = <<"Consuming ingestion message">>]]
                      /\ job' = [job EXCEPT ![s] =
                                   RunEntered(JobDataset(handler), clock + 1,
                                              message.country, message.city,
                                              message.options)]
                      /\ clock' = clock + 1
    /\ runs' = runs + 1
    /\ hist' = [hist EXCEPT ![s] = <<>>]
    /\ UNCHANGED <<storeVars, repo, calls>>

\* consume() after handler.run returned: output = result.__dict__
ConsumeReturn(s) ==
    /\ dispatch[s].pc = "running"
    /\ dispatch[s].worker = "ingestion"
    /\ job[s].pc = "returned"
    /\ dispatch' = [dispatch EXCEPT
                      ![s].pc = "returned",
                      ![s].output = [f \in DOMAIN job[s].result |-> job[s].result[f]],
                      ![s].source = job[s].raw_rows,
                      ![s].logged = Append(@, "Ingestion message processed")]
    /\ UNCHANGED <<storeVars, clock, repo, calls, job, hist, runs>>

\* consume() catching what handler.run raised and answering with a result map.
ConsumeRaise_Caught(s) ==
    /\ dispatch[s].pc = "running"
    /\ dispatch[s].worker = "ingestion"
    /\ job[s].pc = "raised"
    /\ dispatch' = [dispatch EXCEPT
                      ![s].pc = "returned",
                      ![s].output = [NoOutput EXCEPT !.status = "FAILED"]]
    /\ UNCHANGED <<storeVars, clock, repo, calls, job, hist, runs>>

\* handler.run raised: consume() has no except clause.
ConsumeRaise(s) ==
    /\ dispatch[s].pc = "running"
    /\ dispatch[s].worker = "ingestion"
    /\ job[s].pc = "raised"
    /\ dispatch' = [dispatch EXCEPT ![s].pc = "raised", ![s].error = job[s].raised]
    /\ UNCHANGED <<storeVars, clock, repo, calls, job, hist, runs>>

\* The endpoint committing the session before get_db() closes it.
EndpointDone_Commits(s) ==
    /\ dispatch[s].pc \in {"returned", "raised"}
    /\ dispatch[s].worker = "ingestion"
    /\ calls' = IF dispatch[s].handler # None /\ dispatch[s].pc = "raised"
                THEN calls
                ELSE <<dispatch[s]>>
    /\ committed' = IF dispatch[s].pc = "returned"
                    THEN [t \in Tables |-> Overlay(committed[t], Flushed(s)[t])]
                    ELSE committed
    /\ tx' = [tx EXCEPT ![s] = EmptyTables]
    /\ pending' = [pending EXCEPT ![s] = EmptyTables]
    /\ job' = [job EXCEPT ![s] = IdleJob]
    /\ hist' = [hist EXCEPT ![s] = <<>>]
    /\ dispatch' = [dispatch EXCEPT ![s] = IdleDispatch]
    /\ UNCHANGED <<clock, repo, runs>>

\* consume_ingestion_job ends, with the response or with the exception, and
\* get_db() closes the session.  calls keeps the latest request that consume()
\* answered, with a result map or with the rejection of its identifier.
EndpointDone(s) ==
    /\ dispatch[s].pc \in {"returned", "raised"}
    /\ dispatch[s].worker = "ingestion"
    /\ calls' = IF dispatch[s].handler # None /\ dispatch[s].pc = "raised"
                THEN calls
                ELSE <<dispatch[s]>>
    /\ tx' = [tx EXCEPT ![s] = EmptyTables]
    /\ pending' = [pending EXCEPT ![s] = EmptyTables]
    /\ job' = [job EXCEPT ![s] = IdleJob]
    /\ hist' = [hist EXCEPT ![s] = <<>>]
    /\ dispatch' = [dispatch EXCEPT ![s] = IdleDispatch]
    /\ UNCHANGED <<committed, clock, repo, runs>>

\* ================================================= the embedding worker
\* A JSON list; each item carries whether it is a string.
JList(items) == [type |-> "list", val |-> items]
JItem(is_str, v) == [str |-> is_str, val |-> v]

\* _normalize_job_name of the embedding worker
NormalizeJobName(job_name) == StrStrip(StrLower(job_name))

\* from_payload taking an empty regions list for an absent one.
EmbFromPayload_EmptyRegionsDropped(payload) ==
    LET raw == payload.job_name
        regions == payload.regions
    IN  [job_name |-> IF raw.type = "str" THEN raw.val
                      ELSE IF raw.type = "int" /\ raw.val # <<"0">> THEN raw.val
                      ELSE <<>>,
         country |-> payload.country,
         city |-> payload.city,
         regions |-> IF regions.type = "list" /\ regions.val # <<>>
                        /\ \A i \in 1..Len(regions.val) : regions.val[i].str
                     THEN SomeList([i \in 1..Len(regions.val) |-> regions.val[i].val])
                     ELSE NoList,
         options |-> IF payload.options.type = "dict" /\ payload.options.val # <<>>
                     THEN payload.options.val
                     ELSE EmptyOptions]

\* EmbeddingMessage.from_payload
EmbFromPayload(payload) ==
    LET raw == payload.job_name
        job_name == IF raw.type = "str" THEN raw.val
                    ELSE IF raw.type = "int" /\ raw.val # <<"0">> THEN raw.val
                    ELSE <<>>
        regions == payload.regions
        regions_list ==
            IF regions.type = "list"
               /\ \A i \in 1..Len(regions.val) : regions.val[i].str
            THEN SomeList([i \in 1..Len(regions.val) |-> regions.val[i].val])
            ELSE NoList
    IN  [job_name |-> job_name,
         country |-> payload.country,
         city |-> payload.city,
         regions |-> regions_list,
         options |-> IF payload.options.type = "dict" /\ payload.options.val # <<>>
                     THEN payload.options.val
                     ELSE EmptyOptions]

\* create_default of the embedding worker: one job, under one name.
EmbDefaultHandlers ==
    << <<<<"r", "e", "b", "u", "i", "l", "d", "-", "e", "m", "b", "e", "d",
           "d", "i", "n", "g", "s">>, "rebuild_job">> >>

\* EmbeddingWorker.__init__: the registry, keyed by normalised job name.
HandlersByJobName(registered) ==
    [n \in {NormalizeJobName(registered[i][1]) : i \in 1..Len(registered)} |->
        LET last == CHOOSE i \in 1..Len(registered) :
                      /\ NormalizeJobName(registered[i][1]) = n
                      /\ \A k \in (i + 1)..Len(registered) :
                            NormalizeJobName(registered[k][1]) # n
        IN  registered[last][2]]

IdRebuildEmbeddings == EmbDefaultHandlers[1][1]
IdRebuildEmbeddingsMixed ==
    <<" ", "R", "e", "b", "u", "i", "l", "d", "-", "E", "M", "B", "E", "D",
      "D", "I", "N", "G", "S", "\n">>
IdRebuildUnderscore ==
    <<"r", "e", "b", "u", "i", "l", "d", "_", "e", "m", "b", "e", "d",
      "d", "i", "n", "g", "s">>
IdReindexMixed == <<" ", "R", "e", "-", "I", "n", "d", "e", "x">>

\* The bodies posted to /workers/embeddings/consume.
EmbeddingPayloads ==
    {[job_name |-> JStr(IdRebuildEmbeddings), country |-> co, city |-> ci,
      regions |-> rg, options |-> o] :
        co \in Countries, ci \in Cities \cup {None},
        rg \in {JNull, JList(<<>>),
                JList(<<JItem(TRUE, "accra-north"), JItem(TRUE, "accra")>>),
                JList(<<JItem(TRUE, "accra"), JItem(FALSE, "7")>>)},
        o \in {JNull, JDict(<<"mode", "full">>)}}
    \cup {[job_name |-> jn, country |-> co, city |-> ci, regions |-> JNull,
           options |-> JNull] :
            jn \in {JStr(IdRebuildEmbeddingsMixed), JStr(IdRebuildUnderscore),
                    JStr(IdReindexMixed), JStr(IdBlank), JStr(<<>>), JNull,
                    JInt(<<"7">>), JInt(<<"0">>)},
            co \in Countries \cup {None}, ci \in Cities}

\* consume() of the embedding worker up to the call of handler.run; no handler
\* raises ValueError carrying message.job_name.
EmbConsume(s) ==
    /\ dispatch[s].pc = "idle"
    /\ job[s].pc = "idle"
    /\ runs < MaxDispatch
    /\ \E payload \in EmbeddingPayloads :
         LET message == EmbFromPayload(payload)
             normalized_job_name == NormalizeJobName(message.job_name)
             handlers == HandlersByJobName(EmbDefaultHandlers)
             entered == [IdleDispatch EXCEPT !.worker = "embedding",
                                             !.payload = payload,
                                             !.dataset = message.job_name,
                                             !.normalized = normalized_job_name]
         IN  IF normalized_job_name \notin DOMAIN handlers
             THEN /\ dispatch' = [dispatch EXCEPT ![s] =
                        UnsupportedJob(entered, message.job_name,
                                       "Unsupported embedding job")]
                  /\ UNCHANGED <<job, clock>>
             ELSE /\ dispatch' = [dispatch EXCEPT ![s] =
                        [entered EXCEPT
                           !.pc = "running",
                           !.handler = handlers[normalized_job_name],
                           !.country = message.country,
                           !.city = message.city,
                           !.regions = message.regions,
                           !.options = message.options,
                           !.logged = <<"Consuming embedding message">>]]
                  /\ job' = [job EXCEPT ![s] =
                               EmbEntered(clock + 1, message.country, message.city,
                                          message.regions, message.options)]
                  /\ clock' = clock + 1
    /\ runs' = runs + 1
    /\ hist' = [hist EXCEPT ![s] = <<>>]
    /\ UNCHANGED <<storeVars, repo, calls>>

\* consume() after handler.run returned: output = result.__dict__
EmbConsumeReturn(s) ==
    /\ dispatch[s].pc = "running"
    /\ dispatch[s].worker = "embedding"
    /\ job[s].pc = "returned"
    /\ dispatch' = [dispatch EXCEPT
                      ![s].pc = "returned",
                      ![s].output = [f \in DOMAIN job[s].result |-> job[s].result[f]],
                      ![s].logged = Append(@, "Embedding message processed")]
    /\ UNCHANGED <<storeVars, clock, repo, calls, job, hist, runs>>

\* handler.run raised: consume() has no except clause.
EmbConsumeRaise(s) ==
    /\ dispatch[s].pc = "running"
    /\ dispatch[s].worker = "embedding"
    /\ job[s].pc = "raised"
    /\ dispatch' = [dispatch EXCEPT ![s].pc = "raised", ![s].error = job[s].raised]
    /\ UNCHANGED <<storeVars, clock, repo, calls, job, hist, runs>>

\* consume_embedding_job ends, with the response or with the exception, and
\* get_db() closes the session.
EmbEndpointDone(s) ==
    /\ dispatch[s].pc \in {"returned", "raised"}
    /\ dispatch[s].worker = "embedding"
    /\ tx' = [tx EXCEPT ![s] = EmptyTables]
    /\ pending' = [pending EXCEPT ![s] = EmptyTables]
    /\ job' = [job EXCEPT ![s] = IdleJob]
    /\ hist' = [hist EXCEPT ![s] = <<>>]
    /\ dispatch' = [dispatch EXCEPT ![s] = IdleDispatch]
    /\ UNCHANGED <<committed, clock, repo, calls, runs>>

NextDispatch ==
    \/ Consume("s1")
    \/ RunStep("s1")
    \/ ConsumeReturn("s1")
    \/ ConsumeRaise("s1")
    \/ EndpointDone("s1")
    \/ EmbConsume("s1")
    \/ EmbRunStep("s1")
    \/ EmbConsumeReturn("s1")
    \/ EmbConsumeRaise("s1")
    \/ EmbEndpointDone("s1")

SpecDispatch == InitEtl /\ [][NextDispatch]_vars

\* --------------------------------------------------- claims on SpecEtl
Ended(s) == job[s].pc \in {"returned", "raised"}

\* The calls of the given kind that the current invocation completed.
Done(s, op) == {i \in 1..Len(hist[s]) : hist[s][i].op = op /\ hist[s][i].ok}

\* C1: every invocation of run, returning or raising, whichever step fails,
\* performs exactly one freshness upsert and exactly one audit append.
C1_ExactlyOneFreshnessAndAudit ==
    \A s \in Sessions :
        Ended(s) => /\ Cardinality(Done(s, "upsert_status")) = 1
                    /\ Cardinality(Done(s, "add")) = 1

FailedWritesDone(s) ==
    LET j == job[s]
    IN  /\ \E i \in Done(s, "upsert_status") : \E k \in Done(s, "add") :
             /\ hist[s][i].arg = [dataset_name |-> j.dataset, last_run |-> j.now,
                                  row_count |-> 0, status |-> "FAILED"]
             /\ hist[s][k].arg.status = "FAILED"
             /\ hist[s][k].arg.job_name = j.dataset
             /\ hist[s][k].arg.payload = [country |-> j.country, city |-> j.city,
                                          options |-> j.options]
        /\ \E r \in View(s, "data_freshness") :
             /\ r.dataset_name = j.dataset
             /\ r.status = "FAILED" /\ r.row_count = 0
        /\ \E r \in View(s, "etl_logs") :
             /\ r.job_name = j.dataset /\ r.status = "FAILED"
             /\ r.created_at = IsoFormat(j.now)
             /\ r.payload = EtlPayload(j)

\* C2: once fetch or upsert_many has raised, run ends by raising
\* that same exception, with the FAILED freshness record (row_count 0) and the
\* FAILED audit entry written; it never returns a result.
C2_FailureRecordedThenReraised ==
    \A s \in Sessions :
        job[s].exc.op \in {"fetch", "upsert_many"} =>
            /\ job[s].pc # "returned"
            /\ job[s].pc = "raised" => (job[s].raised = job[s].exc /\ FailedWritesDone(s))

\* C6: the data_freshness table never holds two rows with the same
\* dataset_name, whatever runs have been made and however concurrent runs on
\* separate sessions interleave.
C6_OneFreshnessRowPerDataset ==
    \A r1, r2 \in committed["data_freshness"] :
        r1.dataset_name = r2.dataset_name => r1 = r2

\* C22: two invocations of one ETL job running at once on separate sessions
\* and upserting the same natural key leave, however their lookups and writes
\* interleave, exactly one row with that key in the table.
C22_ConcurrentUpsertsLeaveOneRow ==
    \A d \in Datasets :
        \A r1, r2 \in committed[d] :
            NaturalKey(d, r1) = NaturalKey(d, r2) => r1 = r2

\* The calls of the try block: the events up to the first one that raised.
TryEvents(s) ==
    {i \in 1..Len(hist[s]) : \A k \in 1..(i - 1) : hist[s][k].ok}

IsCompletedWrite(e) ==
    \/ e.op = "upsert_status" /\ e.arg.status = "COMPLETED"
    \/ e.op = "add" /\ e.arg.status = "COMPLETED"

\* C25: on the success path an ETL run performs, each at most once and in
\* this order, the fetch, the dataset upsert, the COMPLETED freshness upsert,
\* the COMPLETED audit append, the flush and the return; no write is attempted
\* before the fetch returned and no COMPLETED freshness or audit write before
\* the dataset upsert returned its count.
C25_SuccessPathOrder ==
    \A s \in Sessions :
        LET h == hist[s]
        IN  /\ job[s].pc = "returned" =>
                  /\ [i \in 1..Len(h) |-> h[i].op] =
                        <<"fetch", "upsert_many", "upsert_status", "add", "flush">>
                  /\ \A i \in 1..Len(h) : h[i].ok
                  /\ IsCompletedWrite(h[3]) /\ IsCompletedWrite(h[4])
            /\ \A i \in TryEvents(s) :
                  /\ \A k \in TryEvents(s) : h[k].op = h[i].op => k = i
                  /\ h[i].op # "fetch" =>
                        \E k \in 1..(i - 1) : h[k].op = "fetch" /\ h[k].ok
                  /\ IsCompletedWrite(h[i]) =>
                        /\ \E k \in 1..(i - 1) : h[k].op = "upsert_many" /\ h[k].ok
                        /\ h[i].op = "upsert_status" => h[i].arg.row_count = job[s].affected

\* A run returned after fetching two rows and writing both.
C25_Witness ==
    \E s \in Sessions :
        /\ job[s].pc = "returned"
        /\ Len(job[s].raw_rows) = 2
        /\ job[s].affected = 2
        /\ Len(hist[s]) = 5

\* The freshness records of dataset d in a set of rows.
FreshnessOf(rows, d) == {r \in rows : r.dataset_name = d}

\* C26: over runs made one after the other, when a run has ended and the
\* writes of its failure path (if taken) succeeded, the one freshness record
\* of its dataset describes that run: COMPLETED with the affected-row count if
\* it returned, FAILED with row_count 0 if it raised, last_run the run's start
\* timestamp; the records of the other datasets are as they were before it.
C26_FreshnessDescribesLatestRun ==
    \A s \in Sessions :
        LET j == job[s]
            now_rows == View(s, "data_freshness")
            mine == FreshnessOf(now_rows, j.dataset)
        IN  (Ended(s) /\ (j.pc = "raised" => j.raised = j.exc)) =>
              /\ Cardinality(mine) = 1
              /\ \A r \in mine :
                    /\ r.last_run = IsoFormat(j.now)
                    /\ j.pc = "returned" =>
                          r.status = "COMPLETED" /\ r.row_count = j.affected
                    /\ j.pc = "raised" =>
                          r.status = "FAILED" /\ r.row_count = 0
              /\ now_rows \ mine =
                    committed["data_freshness"] \
                       FreshnessOf(committed["data_freshness"], j.dataset)

\* A run of one dataset raised after an earlier run of another dataset was
\* committed: both datasets have a record.
C26_Witness ==
    \E s \in Sessions :
        /\ job[s].pc = "raised"
        /\ job[s].raised = job[s].exc
        /\ \E r \in committed["data_freshness"] :
              r.dataset_name # job[s].dataset /\ r.status = "COMPLETED"
        /\ \E r \in View(s, "data_freshness") :
              r.dataset_name = job[s].dataset /\ r.status = "FAILED"

\* The FAILED freshness upserts of the current invocation that raised.
FailedUpsertRaised(s) ==
    {i \in 1..Len(hist[s]) :
        /\ hist[s][i].op = "upsert_status"
        /\ ~hist[s][i].ok
        /\ hist[s][i].arg.status = "FAILED"}

\* C27: when the FAILED freshness upsert of the failure path itself raises,
\* no FAILED audit entry is appended, no further flush is issued, and the
\* exception that reaches the caller is the one of the freshness upsert, not
\* the original exception of the try block.
C27_FailedUpsertRaisesInstead ==
    \A s \in Sessions :
        \A i \in FailedUpsertRaised(s) :
            /\ i = Len(hist[s])
            /\ \A k \in 1..Len(hist[s]) :
                  hist[s][k].op = "add" => hist[s][k].arg.status # "FAILED"
            /\ job[s].pc = "raised"
            /\ job[s].raised = Exc("except", "upsert_status")
            /\ job[s].raised # job[s].exc
            /\ \A r \in tx[s]["etl_logs"] \cup pending[s]["etl_logs"] :
                  r.status # "FAILED"

\* The dataset upsert raised and then the FAILED freshness upsert raised.
C27_Witness ==
    \E s \in Sessions :
        /\ FailedUpsertRaised(s) # {}
        /\ job[s].exc = Exc("try", "upsert_many")
        /\ job[s].raised = Exc("except", "upsert_status")

\* The dataset upsert of the run returned and a later call of the try block
\* raised.
RaisedAfterUpsert(s) ==
    /\ job[s].pc = "raised"
    /\ Done(s, "upsert_many") # {}

\* C29: when the dataset upsert succeeded and a later step of the success
\* path raised (the freshness upsert, the audit add or the flush), the failure
\* path does not undo the dataset rows: the run ends with its dataset rows
\* still held by the session and with the dataset's freshness record FAILED
\* with row_count 0.
C29_RowsStayStagedUnderFailedRecord ==
    \A s \in Sessions :
        LET j == job[s]
        IN  RaisedAfterUpsert(s) =>
              /\ \A i \in 1..Len(j.raw_rows) :
                    \E r \in tx[s][j.dataset] :
                        /\ NaturalKey(j.dataset, r) = NaturalKey(j.dataset, j.raw_rows[i])
                        /\ r.last_updated = IsoFormat(j.now)
              /\ \E r \in View(s, "data_freshness") : r.dataset_name = j.dataset
              /\ \A r \in View(s, "data_freshness") :
                    r.dataset_name = j.dataset =>
                        r.status = "FAILED" /\ r.row_count = 0

\* C14: when fetch and every write succeed, run returns a result with status
\* COMPLETED, the canonical dataset name, the country and city it was called
\* with, and the count upsert_many returned as row_count; the freshness record
\* of the dataset holds COMPLETED with that row_count; and one audit entry,
\* COMPLETED, was appended.
C14_SuccessResultFreshnessAudit ==
    \A s \in Sessions :
        LET j == job[s]
        IN  j.pc = "returned" =>
              /\ \A i \in 1..Len(hist[s]) : hist[s][i].ok
              /\ j.result.status = "COMPLETED"
              /\ j.result.dataset_name = j.dataset
              /\ j.dataset \in Datasets
              /\ j.result.country = j.country
              /\ j.result.city = j.city
              /\ j.result.row_count = j.affected
              /\ \E i \in Done(s, "upsert_status") :
                    hist[s][i].arg = [dataset_name |-> j.dataset, last_run |-> j.now,
                                      row_count |-> j.result.row_count,
                                      status |-> "COMPLETED"]
              /\ \E r \in View(s, "data_freshness") :
                    /\ r.dataset_name = j.dataset
                    /\ r.status = "COMPLETED"
                    /\ r.row_count = j.result.row_count
              /\ Cardinality(Done(s, "add")) = 1
              /\ \A i \in Done(s, "add") : hist[s][i].arg.status = "COMPLETED"
              /\ Cardinality({r \in View(s, "etl_logs") :
                                 /\ r.created_at = IsoFormat(j.now)
                                 /\ r.job_name = j.dataset}) = 1
              /\ \A r \in View(s, "etl_logs") :
                    r.created_at = IsoFormat(j.now) => r.status = "COMPLETED"

\* A labour stats run returned after upserting two rows.
C14_Witness ==
    \E s \in Sessions :
        /\ job[s].pc = "returned"
        /\ job[s].dataset = "labour_stats"
        /\ job[s].result.row_count = 2
        /\ Len(job[s].raw_rows) = 2

\* C15: one timestamp is taken per ETL run, and last_updated of the rows the
\* run upserted, last_run of the freshness record it wrote and created_at of
\* the audit entry it appended all carry it, on the success path and on the
\* failure path.
C15_SingleTimestampPerRun ==
    \A s \in Sessions :
        LET j == job[s]
            d == j.dataset
            stamp == IsoFormat(j.now)
        IN  Ended(s) =>
              /\ \A i \in 1..Len(hist[s]) :
                    LET e == hist[s][i]
                    IN  /\ e.op = "upsert_many" => e.arg.last_updated = j.now
                        /\ e.op = "upsert_status" => e.arg.last_run = j.now
                        /\ e.op = "add" => e.arg.created_at = stamp
              /\ Done(s, "upsert_many") # {} =>
                    \A k \in 1..Len(j.raw_rows) :
                       \E r \in View(s, d) :
                          /\ NaturalKey(d, r) = NaturalKey(d, j.raw_rows[k])
                          /\ r.last_updated = stamp
              /\ Done(s, "upsert_status") # {} =>
                    \E r \in View(s, "data_freshness") :
                       r.dataset_name = d /\ r.last_run = stamp
              /\ \A i \in Done(s, "add") :
                    \E r \in View(s, "etl_logs") \cup pending[s]["etl_logs"] :
                       /\ r.id = hist[s][i].arg.id
                       /\ r.created_at = stamp
              /\ \A t \in Sessions \ {s} : job[t].pc # "idle" => job[t].now # j.now

\* A run whose COMPLETED freshness write raised after two rows were upserted,
\* and which recorded the failure.
C15_Witness ==
    \E s \in Sessions :
        /\ job[s].pc = "raised"
        /\ job[s].raised = Exc("try", "upsert_status")
        /\ Len(job[s].raw_rows) = 2
        /\ Cardinality(Done(s, "upsert_status")) = 1
        /\ Cardinality(Done(s, "add")) = 1

\* ------------------------------------------------- claims on SpecEmbed
IsEmb(s) == "kind" \in DOMAIN job[s]

\* The session's rebuild run has read the four repositories.
PastRead(s) ==
    IsEmb(s) /\ \E i \in 1..Len(hist[s]) : hist[s][i].op = "read" /\ hist[s][i].ok

\* The geo_ids of the rows the database holds for the run's city.
UnionOfGeoIds(s) ==
    UNION { {r.geo_id : r \in CityRows(s, t, job[s].city, job[s].country)} :
              t \in Datasets }

VectorUpsertCalls(s) ==
    {i \in 1..Len(hist[s]) : hist[s][i].op = "vector_upsert_many"}

\* C7: once the embedding client has returned a vector whose length differs
\* from the configured dimensionality, the run never calls the vector
\* repository's upsert, stages no vector row, and ends by raising.
C7_NoUpsertOnDimensionMismatch ==
    \A s \in Sessions :
        (IsEmb(s) /\ \E i \in 1..Len(job[s].embeddings) :
                        job[s].embeddings[i].dim # EmbeddingDimensions)
        => /\ VectorUpsertCalls(s) = {}
           /\ job[s].pc \in {"e_check", "e_x_audit", "e_x_flush", "raised"}
           /\ job[s].upsert_rows = <<>>
           /\ tx[s]["vector_insights"] = {}
           /\ pending[s]["vector_insights"] = {}
           /\ job[s].result = None

\* A run that raised on the dimension check although one of several vectors
\* had the right length.
C7_Witness ==
    \E s \in Sessions :
        /\ IsEmb(s)
        /\ job[s].pc = "raised"
        /\ job[s].raised = Exc("try", "dimension_check")
        /\ Len(job[s].ordered_geo_ids) >= 2
        /\ \E i \in 1..Len(job[s].embeddings) :
              job[s].embeddings[i].dim = EmbeddingDimensions

\* C8: the document list follows the selected geo_ids in strictly ascending
\* lexicographic order, whatever order the repositories returned the rows in,
\* and the vector upsert pairs the i-th returned vector with the i-th geo_id.
C8_SortedDeterministicAssignment ==
    \A s \in Sessions :
        PastRead(s) =>
            LET j == job[s]
                ord == j.ordered_geo_ids
            IN  /\ \A i, k \in 1..Len(ord) : i < k => LexLess(ord[i], ord[k])
                /\ Range(ord) \subseteq UnionOfGeoIds(s)
                /\ Len(j.documents) = Len(ord)
                /\ \A i \in 1..Len(ord) : j.documents[i].geo_id = ord[i]
                /\ \A c \in VectorUpsertCalls(s) :
                     LET rows == hist[s][c].arg
                     IN  /\ Len(rows) = Len(ord)
                         /\ \A i \in 1..Len(ord) :
                              /\ rows[i].geo_id = ord[i]
                              /\ rows[i].embedding = j.embeddings[i]
                              /\ rows[i].embedding.pos = i
                /\ j.pc \in {"e_audit", "e_flush", "returned"} =>
                     \A i \in 1..Len(ord) :
                        \E v \in View(s, "vector_insights") :
                           /\ v.geo_id = ord[i]
                           /\ v.embedding = j.embeddings[i]

\* A completed vector upsert of three regions whose rows were read in an order
\* other than the sorted one.
C8_Witness ==
    \E s \in Sessions :
        /\ PastRead(s)
        /\ job[s].pc = "returned"
        /\ Len(job[s].ordered_geo_ids) = 3
        /\ VectorUpsertCalls(s) # {}
        /\ Len(job[s].rows["demographics"]) = 2
        /\ job[s].rows["demographics"][1].geo_id = "accra-north"
        /\ job[s].ordered_geo_ids[1] = "Zongo"

\* C9: the processed regions are the union of the geo_ids read, and
\* for every supplied regions list, the empty one included, the intersection
\* of that union with the list.
C9_UnionThenIntersection ==
    \A s \in Sessions :
        PastRead(s) =>
            Range(job[s].ordered_geo_ids) =
                IF job[s].regions.some
                THEN UnionOfGeoIds(s) \cap Range(job[s].regions.list)
                ELSE UnionOfGeoIds(s)

\* The embedding client handed back fewer vectors than documents, each of the
\* configured length.
FewerVectors(s) ==
    /\ IsEmb(s)
    /\ \E i \in 1..Len(hist[s]) : hist[s][i].op = "embed_texts" /\ hist[s][i].ok
    /\ Len(job[s].embeddings) < Len(job[s].documents)
    /\ \A i \in 1..Len(job[s].embeddings) :
          job[s].embeddings[i].dim = EmbeddingDimensions

\* C28: when the embedding client returns fewer vectors than documents, each
\* of the configured length, the rebuild run performs no vector upsert (no
\* region is written without a vector or with another region's vector),
\* appends a FAILED audit entry and raises.
C28_FewerVectorsNoUpsertFailedAudit ==
    \A s \in Sessions :
        FewerVectors(s) =>
            /\ VectorUpsertCalls(s) = {}
            /\ job[s].upsert_rows = <<>>
            /\ tx[s]["vector_insights"] = {} /\ pending[s]["vector_insights"] = {}
            /\ job[s].pc # "returned"
            /\ Ended(s) =>
                  \E i \in Done(s, "add") : hist[s][i].arg.status = "FAILED"

\* C17: every embedding run that gets past the check of city appends exactly
\* one audit entry with job_name "rebuild-embeddings": COMPLETED when the run
\* returns, FAILED when it raises, whichever step failed (a read, the embed
\* call, the dimension check, the vector upsert, the audit add or the flush).
C17_ExactlyOneEmbeddingAuditEntry ==
    \A s \in Sessions :
        (IsEmb(s) /\ Ended(s) /\ job[s].raised.block # "before_try") =>
            /\ Cardinality(Done(s, "add")) = 1
            /\ \A i \in Done(s, "add") :
                  /\ hist[s][i].arg.job_name = "rebuild-embeddings"
                  /\ hist[s][i].arg.status =
                        IF job[s].pc = "returned" THEN "COMPLETED" ELSE "FAILED"

\* C18: an embedding run whose city is missing or empty raises ValueError at
\* once: it reads no repository, calls no embedding client and upserts no
\* vector row.
C18_EmptyCityRaisesImmediately ==
    [][\A s \in Sessions :
          ("kind" \in DOMAIN job'[s] /\ job'[s].pc # "idle"
           /\ job'[s].city \in {None, ""})
          => /\ job'[s].pc = "raised"
             /\ job'[s].raised = Exc("before_try", "city")
             /\ job'[s].result = None
             /\ hist'[s] = <<>>
             /\ storeVars' = storeVars]_vars

\* A run without a city raised on a database that holds rows to embed.
C18_Witness ==
    \E s \in Sessions :
        /\ IsEmb(s)
        /\ job[s].pc = "raised"
        /\ job[s].city = None
        /\ job[s].raised = Exc("before_try", "city")
        /\ committed["demographics"] # {}

\* ------------------------------------------------ claims on SpecDispatch
\* c is the lower-case, hyphen-to-underscore form of the character d.
NormalChar(d, c) ==
    /\ c \notin Range(UpperCase) \cup {"-"}
    /\ \/ c = d
       \/ d = "-" /\ c = "_"
       \/ \E k \in 1..Len(UpperCase) : d = UpperCase[k] /\ c = LowerCase[k]

\* n is identifier id in lower case, with underscores for hyphens and without
\* the whitespace around it.
IsNormalFormOf(n, id) ==
    \E lead \in 0..(Len(id) - Len(n)) :
        /\ \A i \in 1..Len(n) : NormalChar(id[lead + i], n[i])
        /\ \A i \in 1..Len(id) :
              (i <= lead \/ i > lead + Len(n)) => id[i] \in Whitespace
        /\ n # <<>> => n[1] \notin Whitespace /\ n[Len(n)] \notin Whitespace

Answered(d) == d.pc = "returned" \/ (d.pc = "raised" /\ d.handler = None)

SameArguments(a, b) ==
    /\ a.country = b.country
    /\ a.city = b.city
    /\ a.options = b.options

\* C10: the identifier is normalised (lower case, underscores for hyphens,
\* surrounding whitespace trimmed) at dispatch exactly as the registered names
\* were, so that two identifiers with one normal form, dispatched with payloads
\* that are otherwise identical, reach the same handler instance with the same
\* arguments and get the same result map; "business-density-refresh" and
\* "business_density" reach the business density job, "Labour-Stats-Refresh "
\* and "labour_stats_refresh" the labour stats job.
C10_SameNormalFormSameDispatch ==
    \A s \in Sessions :
        LET cur == dispatch[s]
        IN  cur.worker = "ingestion" =>
              /\ IsNormalFormOf(cur.normalized, cur.dataset)
              /\ \A i \in 1..Len(DefaultHandlers) :
                    IsNormalFormOf(cur.normalized, DefaultHandlers[i][1])
                    => cur.handler = DefaultHandlers[i][2]
              /\ cur.handler # None =>
                    \E i \in 1..Len(DefaultHandlers) :
                       IsNormalFormOf(cur.normalized, DefaultHandlers[i][1])
              /\ cur.dataset \in {IdBusinessDensityRefresh, IdBusinessDensity}
                    => cur.handler = "business_density_job"
              /\ cur.dataset \in {IdLabourStatsRefreshMixed, IdLabourStatsRefresh}
                    => cur.handler = "labour_stats_job"
              /\ cur.handler # None =>
                    /\ job[s].dataset = JobDataset(cur.handler)
                    /\ job[s].country = cur.payload.country
                    /\ job[s].city = cur.payload.city
                    /\ job[s].options = cur.options
              /\ \A k \in 1..Len(calls) :
                    LET prev == calls[k]
                    IN  (/\ prev.normalized = cur.normalized
                         /\ prev.payload.country = cur.payload.country
                         /\ prev.payload.city = cur.payload.city
                         /\ prev.payload.options = cur.payload.options)
                        => /\ prev.handler = cur.handler
                           /\ SameArguments(prev, cur)
                           /\ Answered(cur) => prev.pc = cur.pc
                           /\ cur.pc = "returned" =>
                                cur.output = [prev.output EXCEPT
                                                !.row_count = Len(cur.source)]

\* "Labour-Stats-Refresh " answered with a result map, then
\* "labour_stats_refresh" with the same country, city and options.
C10_Witness ==
    \E s \in Sessions :
        /\ Len(calls) = 1
        /\ calls[1].dataset = IdLabourStatsRefreshMixed
        /\ calls[1].pc = "returned"
        /\ dispatch[s].dataset = IdLabourStatsRefresh
        /\ dispatch[s].pc = "returned"
        /\ dispatch[s].payload.options = calls[1].payload.options
        /\ dispatch[s].output.row_count = 2

\* C11: the identifier the ingestion worker routes by is the payload's dataset
\* field when that is a string with a character other than whitespace, also
\* when job_name names another job; otherwise the job_name field when that is
\* a non-empty string; otherwise the empty string, for which no handler is
\* found.
C11_DatasetThenJobNameThenEmpty ==
    \A s \in Sessions :
        LET cur == dispatch[s]
            ds == cur.payload.dataset
            jn == cur.payload.job_name
        IN  cur.worker = "ingestion" =>
              /\ cur.dataset =
                    IF ds.type = "str" /\ \E i \in 1..Len(ds.val) : ds.val[i] \notin Whitespace
                    THEN ds.val
                    ELSE IF jn.type = "str" /\ Len(jn.val) > 0 THEN jn.val
                         ELSE <<>>
              /\ cur.dataset = <<>> => cur.handler = None /\ cur.pc = "raised"

\* A payload whose dataset names the business density job and whose job_name
\* names the labour stats job has been served by the business density job.
C11_Witness ==
    \E s \in Sessions :
        /\ dispatch[s].pc = "returned"
        /\ dispatch[s].payload.dataset = JStr(IdBusinessDensity)
        /\ dispatch[s].payload.job_name = JStr(IdLabourStatsRefresh)
        /\ dispatch[s].handler = "business_density_job"
        /\ dispatch[s].output.dataset_name = "business_density"

\* The identifier a payload carries, as text and before any normalisation: the
\* job_name of an embedding payload (nothing when it is null, empty or zero),
\* the dataset or else the job_name of an ingestion payload.
ReceivedIdentifier(worker, p) ==
    LET text(v) == IF v.type = "str" \/ (v.type = "int" /\ v.val # <<"0">>)
                   THEN v.val ELSE <<>>
        str_only(v) == IF v.type = "str" THEN v.val ELSE <<>>
    IN  IF worker = "embedding" THEN text(p.job_name)
        ELSE IF \E i \in 1..Len(str_only(p.dataset)) :
                   p.dataset.val[i] \notin Whitespace
             THEN p.dataset.val
             ELSE str_only(p.job_name)

\* C12: when the identifier resolves to no handler, consume raises the
\* unsupported-job error carrying the identifier as it was received, not its
\* normal form; no handler is invoked and storage is neither read nor written.
\* This holds of the ingestion worker and of the embedding worker.
C12_UnsupportedRaisesWithoutEffect ==
    [][\A s \in Sessions :
          (dispatch[s].pc = "idle" /\ dispatch'[s].pc # "idle"
           /\ dispatch'[s].handler = None)
          => /\ dispatch'[s].pc = "raised"
             /\ dispatch'[s].error = Exc("consume", "ValueError")
             /\ dispatch'[s].unsupported = dispatch'[s].dataset
             /\ dispatch'[s].unsupported =
                   ReceivedIdentifier(dispatch'[s].worker, dispatch'[s].payload)
             /\ job'[s] = IdleJob
             /\ hist'[s] = <<>>
             /\ storeVars' = storeVars]_vars

\* The embedding worker has rejected " Re-Index" after the ingestion worker
\* rejected "labour stats".
C12_Witness ==
    \E s \in Sessions :
        /\ dispatch[s].worker = "embedding"
        /\ dispatch[s].pc = "raised"
        /\ dispatch[s].handler = None
        /\ dispatch[s].unsupported = IdReindexMixed
        /\ dispatch[s].normalized # IdReindexMixed
        /\ Len(calls) = 1
        /\ calls[1].worker = "ingestion"
        /\ calls[1].pc = "raised"
        /\ calls[1].unsupported = IdLabourSpaceStats

\* C13: when the handler consume selected raises, consume does not catch it:
\* the same exception leaves consume, there is no result map, the handler was
\* entered once and is not entered again, and the dispatch was logged before
\* the handler ran.  This holds of both workers.
C13_HandlerExceptionPropagates ==
    [][\A s \in Sessions :
          LET cur == dispatch'[s]
          IN  /\ (cur.pc # "idle" /\ cur.handler # None) =>
                    /\ job'[s].pc # "idle"
                    /\ cur.logged[1] = IF cur.worker = "embedding"
                                       THEN "Consuming embedding message"
                                       ELSE "Consuming ingestion message"
                    /\ job'[s].pc = "raised" =>
                          /\ cur.pc \in {"running", "raised"}
                          /\ cur.output = NoOutput
                          /\ Len(cur.logged) = 1
                          /\ cur.pc = "raised" => cur.error = job'[s].raised
                    /\ cur.pc = "raised" => job'[s].pc = "raised"
                    /\ dispatch[s].pc # "idle" =>
                          /\ clock' = clock
                          /\ runs' = runs
                          /\ job'[s].now = job[s].now
              /\ cur.handler = None => hist'[s] = <<>>]_vars

\* The rebuild job, reached through the embedding worker, raised at
\* embed_texts, and consume ended with that exception.
C13_Witness ==
    \E s \in Sessions :
        /\ dispatch[s].worker = "embedding"
        /\ dispatch[s].pc = "raised"
        /\ dispatch[s].handler = "rebuild_job"
        /\ dispatch[s].error = Exc("try", "embed_texts")
        /\ Len(hist[s]) > 2

\* C21: the embedding worker normalises the job identifier as the ingestion
\* worker does (lower case, underscores for hyphens, surrounding whitespace
\* trimmed), so that every identifier with the normal form of
\* "rebuild-embeddings", "rebuild_embeddings" among them, reaches the rebuild
\* handler.
C21_EmbeddingIdentifierNormalised ==
    \A s \in Sessions :
        LET cur == dispatch[s]
        IN  cur.worker = "embedding" =>
              (IsNormalFormOf(IdRebuildUnderscore, cur.dataset)
                 => cur.handler = "rebuild_job")

\* C23: consume hands the handler it selected the country, the city and the
\* options of the payload unchanged, and in the embedding worker the regions
\* list when that is a list of strings; a payload without options, or with
\* null options, gives the handler an empty map.
C23_ArgumentsPassedThrough ==
    \A s \in Sessions :
        LET cur == dispatch[s]
            p == cur.payload
        IN  cur.handler # None =>
              /\ job[s].pc # "idle"
              /\ job[s].country = p.country
              /\ job[s].city = p.city
              /\ p.options.type = "dict" => job[s].options = p.options.val
              /\ p.options.type = "null" => job[s].options = <<>>
              /\ (/\ cur.worker = "embedding"
                  /\ p.regions.type = "list"
                  /\ \A i \in 1..Len(p.regions.val) : p.regions.val[i].str)
                 => /\ job[s].regions.some
                    /\ Len(job[s].regions.list) = Len(p.regions.val)
                    /\ \A i \in 1..Len(p.regions.val) :
                          job[s].regions.list[i] = p.regions.val[i].val

\* The rebuild job returned after being handed two regions and an options map.
C23_Witness ==
    \E s \in Sessions :
        /\ dispatch[s].worker = "embedding"
        /\ dispatch[s].pc = "returned"
        /\ job[s].regions = SomeList(<<"accra-north", "accra">>)
        /\ job[s].options = <<"mode", "full">>
        /\ job[s].city = "Accra"

\* The endpoint answers {"status": "OK", "result": ...} for a COMPLETED job.
AnsweredOkCompleted(d) == d.pc = "returned" /\ d.output.status = "COMPLETED"

\* C30: in the push-endpoint flow (open session, decode, worker.consume,
\* close) no commit is ever issued: when a job returned COMPLETED and the
\* endpoint answers OK, the dataset rows, the freshness record and the audit
\* entry the session holds are not committed when the session is closed.
C30_PushEndpointNeverCommits ==
    [][\A s \in Sessions :
          /\ committed' = committed
          /\ (AnsweredOkCompleted(dispatch[s]) /\ dispatch'[s].pc = "idle") =>
                /\ \E r \in tx[s]["etl_logs"] : r.status = "COMPLETED"
                /\ dispatch[s].worker = "ingestion" =>
                      /\ tx[s][job[s].dataset] # {}
                      /\ \E r \in tx[s]["data_freshness"] : r.status = "COMPLETED"
                /\ \A t \in Tables : tx[s][t] \cap committed'[t] = {}
                /\ tx'[s] = EmptyTables
                /\ pending'[s] = EmptyTables]_vars

\* The session of a request answered OK for a COMPLETED ingestion job has
\* been closed and the store holds nothing.
C30_Witness ==
    /\ Len(calls) = 1
    /\ AnsweredOkCompleted(calls[1])
    /\ calls[1].worker = "ingestion"
    /\ dispatch["s1"].pc = "idle"
    /\ \A t \in Tables : committed[t] = {}

\* ---------------------------------------------------- claims on SpecAudit
\* The audit entries session s holds, flushed or not.
SessionLogs(s) == tx[s]["etl_logs"] \cup pending[s]["etl_logs"]

\* The rows session s holds in table t, flushed or not, by primary key.
HeldIds(s, t) == {r.id : r \in tx[s][t] \cup pending[s][t]}

\* The calls of the current invocation that wrote to the storage handle.
Writes(s) ==
    {i \in 1..Len(hist[s]) :
        /\ hist[s][i].ok
        /\ hist[s][i].op \in {"upsert_many", "upsert_status", "vector_upsert_many", "add"}}

C16_AuditLogAppendOnly ==
    [][/\ committed["etl_logs"] \subseteq committed'["etl_logs"]
       /\ \A s \in Sessions :
             \/ SessionLogs(s) \subseteq SessionLogs(s)' \cup committed'["etl_logs"]
             \/ /\ Ended(s)
                /\ job'[s].pc = "idle"
                /\ committed' = committed]_vars

\* A rebuild run appended its entry to a log that holds the committed entry
\* of an ETL run.
C16_Witness ==
    \E s \in Sessions :
        /\ "kind" \in DOMAIN job[s]
        /\ job[s].pc = "returned"
        /\ \E r \in committed["etl_logs"] : r.job_name \in Datasets
        /\ \E r \in tx[s]["etl_logs"] : r.job_name = "rebuild-embeddings"

\* --------------------------------------------------- claims on SpecVector
VectorKey(r) == <<r.tenant_id, r.geo_id>>

\* C19: after any sequence of embedding rebuild runs the vector store holds at
\* most one row per (tenant_id or null, geo_id); a run that returns has
\* upserted exactly one row for each selected geo_id, carrying the vector and
\* the metadata of that region; and where a row with the key existed already,
\* that row was overwritten in place and no row was added.
C19_OneVectorRowPerKey ==
    \A s \in Sessions :
        LET rows == View(s, "vector_insights")
            j == job[s]
        IN  /\ \A r1, r2 \in rows : VectorKey(r1) = VectorKey(r2) => r1 = r2
            /\ \A r1, r2 \in committed["vector_insights"] :
                  VectorKey(r1) = VectorKey(r2) => r1 = r2
            /\ (IsEmb(s) /\ j.pc = "returned") =>
                  /\ j.affected = Len(j.ordered_geo_ids)
                  /\ \A i \in 1..Len(j.ordered_geo_ids) :
                        LET mine == {r \in rows :
                                       VectorKey(r) = <<j.tenant_id, j.ordered_geo_ids[i]>>}
                        IN  /\ Cardinality(mine) = 1
                            /\ \A r \in mine :
                                  /\ r.embedding = j.embeddings[i]
                                  /\ r.metadata_json = j.metadatas[i]
                                  /\ r.created_at = IsoFormat(j.now)
                                  /\ \A c \in committed["vector_insights"] :
                                        VectorKey(c) = VectorKey(r) => c.id = r.id
                  /\ Cardinality(rows) =
                        Cardinality(committed["vector_insights"])
                        + Cardinality({i \in 1..Len(j.ordered_geo_ids) :
                             \A c \in committed["vector_insights"] :
                                VectorKey(c) # <<j.tenant_id, j.ordered_geo_ids[i]>>})

\* A second run returned after overwriting the two committed rows of the
\* first run.
C19_Witness ==
    \E s \in Sessions :
        /\ IsEmb(s)
        /\ job[s].pc = "returned"
        /\ Len(job[s].ordered_geo_ids) = 2
        /\ Cardinality(committed["vector_insights"]) = 2
        /\ \A c \in committed["vector_insights"] :
              /\ c.tenant_id = job[s].tenant_id
              /\ c.created_at # IsoFormat(job[s].now)
              /\ \E r \in tx[s]["vector_insights"] : r.id = c.id /\ r # c

\* ------------------------------------------------- claims on SpecOverpass
\* C20: when the provider answers the query of any one business type with a
\* status outside 2xx, fetch raises and hands back no rows, not even the rows
\* built from the business types queried before; the business density job
\* then upserts no dataset row, and ends raising with the run marked FAILED.
C20_FailedQueryAbortsWholeFetch ==
    \A s \in Sessions :
        \A i \in 1..Len(hist[s]) :
            (/\ hist[s][i].op = "fetch"
             /\ \E k \in 1..Len(OsmBusinessTypes) :
                   hist[s][i].arg.responses[k].status \notin 200..299)
            => /\ ~hist[s][i].ok
               /\ job[s].raw_rows = <<>>
               /\ \A k \in 1..Len(hist[s]) : hist[s][k].op # "upsert_many"
               /\ \A r \in View(s, "business_density") \cup pending[s]["business_density"] :
                     r.last_updated # IsoFormat(job[s].now)
               /\ job[s].pc # "returned"
               /\ Ended(s) => FailedWritesDone(s)

\* ------------------------------------------------ claims on SpecUpsert
TableNow == View("s1", repo)

DistinctKeys(rows) ==
    \A i, j \in 1..Len(rows) :
        NaturalKey(repo, rows[i]) = NaturalKey(repo, rows[j]) => i = j

InputKeys(rows) == {NaturalKey(repo, rows[i]) : i \in 1..Len(rows)}

RowsWithKey(k) == {r \in TableNow : NaturalKey(repo, r) = k}

\* C3: after any sequence of upsert_many calls with any input lists, no two
\* rows of the table share a natural key.
C3_UniqueNaturalKey ==
    \A r1, r2 \in TableNow :
        NaturalKey(repo, r1) = NaturalKey(repo, r2) => r1 = r2

\* C4: two consecutive upsert_many calls with the identical list of rows
\* (distinct natural keys) leave exactly one row per key, the second call only
\* updates, both return the number of input rows, and every such row carries
\* the last_updated of the second call.
C4_TwiceIsIdempotent ==
    (Len(calls) >= 2 /\ calls[Len(calls)].rows = calls[Len(calls) - 1].rows
                     /\ DistinctKeys(calls[Len(calls)].rows))
    => LET c1 == calls[Len(calls) - 1]
           c2 == calls[Len(calls)]
       IN  /\ c1.returned = Len(c1.rows)
           /\ c2.returned = c1.returned
           /\ Len(c2.log) = Len(c2.rows)
           /\ {r.id : r \in TableNow} = {r.id : r \in c2.before}
           /\ \A k \in InputKeys(c2.rows) :
                /\ Cardinality(RowsWithKey(k)) = 1
                /\ \A r \in RowsWithKey(k) : r.last_updated = IsoFormat(c2.ts)

\* C5: every update made by upsert_many keeps the existing row's identity, key
\* fields and tenant_id, sets every other field present in the input row to
\* the input value, leaves absent fields alone, stamps last_updated with the
\* call's timestamp, and the row stored after the call is the one so updated.
C5_UpdateKeepsKeyAndTenant ==
    \A c \in 1..Len(calls) : \A u \in 1..Len(calls[c].log) :
        LET e == calls[c].log[u]
        IN  /\ e.after.id = e.before.id
            /\ \A f \in KeyFields(repo) \cup {"tenant_id"} : e.after[f] = e.before[f]
            /\ \A f \in DOMAIN e.input :
                 f \notin KeyFields(repo) \cup {"tenant_id"} => e.after[f] = e.input[f]
            /\ \A f \in ValueFields(repo) \ DOMAIN e.input : e.after[f] = e.before[f]
            /\ e.after.last_updated = IsoFormat(calls[c].ts)
            /\ (c = Len(calls) /\ \A w \in (u + 1)..Len(calls[c].log) :
                                     calls[c].log[w].before.id # e.before.id)
               => e.after \in TableNow

\* An update whose input row carries a tenant_id other than the existing row's
\* and a new value for a column.
C5_Witness ==
    \E c \in 1..Len(calls) : \E u \in 1..Len(calls[c].log) :
        LET e == calls[c].log[u]
        IN  /\ "tenant_id" \in DOMAIN e.input
            /\ e.input["tenant_id"] # e.before["tenant_id"]
            /\ \E f \in ValueFields(repo) :
                 f \in DOMAIN e.input /\ e.input[f] # e.before[f]

====
